---- MODULE Spec2Model ----
(***************************************************************************)
(* Verification model of the appointment / discount / commission core of   *)
(* little-backend (src/src/controllers/appointmentController.ts, latest    *)
(* revision starting at line 1425, and the financial controller).          *)
(*                                                                         *)
(* Encoding.  Money is held in cents (integers).  A nullable id (barberId, *)
(* discountCodeId) is 0 when null: the handlers test ids by truthiness.    *)
(* A stored discountAmount of null is 0: the handlers store                *)
(* `discountAmount || null`.  A nullable price is NULL when null.  A       *)
(* request body is a record; a field that the request does not carry       *)
(* (undefined in the handler) is absent from the record's DOMAIN.          *)
(* A discount code is named by its id (DiscountCode.code is unique).       *)
(***************************************************************************)
EXTENDS Integers, Sequences, FiniteSets, TLC

VARIABLES
    packages,       \* Package table: id -> [price]
    users,          \* User table: id -> [role, isActive, commissionRate,
                    \*   productCommissionRate, email, password]
    products,       \* Product table: id -> [price, stock, isActive]
    productSales,   \* ProductSale rows in insertion order
    clients,        \* Client table: set of client ids
    discountCodes,  \* DiscountCode table: id -> [discountType, discountPercent,
                    \*   discountAmount, applicablePackages, isActive]
    appts,          \* Appointment table: id -> row
    nextApptId,     \* Appointment id sequence (SERIAL)
    apptDiscounts,  \* AppointmentDiscount rows
    usages,         \* DiscountCodeUsage rows, unique on (discountCodeId, clientId)
    creating,       \* createAppointment requests in flight: slot -> request state
    now,            \* the day on the server clock (createdAt of new rows)
    ops,            \* number of requests received so far
    tokens,         \* JWTs issued and still valid: [userId, role]
    nextUserId,     \* User id sequence (SERIAL)
    editing,        \* editAppointment request between its ledger writes and
                    \*   its appointment.update
    nextSaleId,     \* ProductSale id sequence (SERIAL)
    selling,        \* sellProduct requests in flight: slot -> request state
    lastResp        \* the response sent last: [op, status, error, appt]

vars == <<packages, users, products, productSales, clients, discountCodes,
          appts, nextApptId, apptDiscounts, usages, creating, now, ops,
          tokens, nextUserId, editing, nextSaleId, selling,
          lastResp>>

\* ---------------------------------------------------------------- bounds
MaxAppts == 2
MaxInflight == 2
MaxOps == 3

\* A null price (finalPrice after a monthly reset, originalPrice of a row
\* written by the first revision of createAppointment).
NULL == 0 - 999999

Idle == [pc |-> "idle"]

\* ---------------------------------------------------------------- tables
PackageIds == {1, 2}
ClientIds == {1, 2}
UserIds == {1, 2, 3}
CodeIds == {1, 2, 3}
Slots == 1..MaxInflight

Range(s) == {s[i] : i \in DOMAIN s}

RECURSIVE SumPrices(_, _)
SumPrices(pkgs, ids) ==
    IF ids = {} THEN 0
    ELSE LET p == CHOOSE x \in ids : TRUE
         IN  pkgs[p].price + SumPrices(pkgs, ids \ {p})

RECURSIVE SumAmounts(_)
SumAmounts(rows) ==
    IF rows = <<>> THEN 0
    ELSE Head(rows).discountAmount + SumAmounts(Tail(rows))

\* prisma.package.findMany({ where: { id: { in: ids } } }): the rows whose id is
\* in the list, each once.
FindPackages(pkgs, ids) == {p \in DOMAIN pkgs : p \in Range(ids)}

\* Math.round(amount * percent / 100 * 100) / 100, on cents; Math.round rounds
\* half up.
RoundMoney(amountTimesPercent) == (amountTimesPercent + 50) \div 100

\* A nullable number in arithmetic: null counts as 0.
ToNumber(x) == IF x = NULL THEN 0 ELSE x

\* discountPercent is null on a fixed_amount code.
PercentOf(amount, percent) == RoundMoney(amount * ToNumber(percent))

\* prisma.discountCode.findUnique({ where: { code, isActive: true } })
FindActiveCode(codes, code) ==
    IF code \in DOMAIN codes /\ codes[code].isActive THEN code ELSE 0

\* prisma.user.findUnique({ where: { id, role in [Boss, Staff], isActive } })
FindActiveBarber(us, id) ==
    id \in DOMAIN us /\ us[id].role \in {"Boss", "Staff"} /\ us[id].isActive

\* A role lookup that takes every acting user for Staff.
RoleOfEveryoneStaff(us, id) == "Staff"

\* currentUser?.role of the acting user (undefined when the id does not resolve)
RoleOf(us, id) == IF id \in DOMAIN us THEN us[id].role ELSE "none"

\* Passwords are sequences of characters; bcrypt is taken to be injective.
GoodPassword == <<1, 2, 3, 4, 5, 6>>

Has(inp, f) == f \in DOMAIN inp

Resp(op, status, error, appt) ==
    [op |-> op, status |-> status, error |-> error, appt |-> appt]

\* The unique index on DiscountCodeUsage (discountCodeId, clientId), the compound
\* key discountCodeId_clientId of the queries.
UsageExists(us, code, client) ==
    \E u \in us : u.discountCodeId = code /\ u.clientId = client

UsageRow(code, client, appt) ==
    [discountCodeId |-> code, clientId |-> client, appointmentId |-> appt]

\* A usage table without the unique index: every insert is accepted.
UsageCreateOkNoIndex(us, code, client) == TRUE

\* discountCodeUsage.create: the row is inserted unless the unique index rejects
\* it (P2002).
UsageCreateOk(us, code, client) == ~UsageExists(us, code, client)

UsageCreate(us, code, client, appt) == us \cup {UsageRow(code, client, appt)}


\* Appointment table with row `row` under id `id` (insert or replace).
Put(A, id, row) == [i \in DOMAIN A \cup {id} |-> IF i = id THEN row ELSE A[i]]

\* ------------------------------------------------- createAppointment
\* The discount part of createAppointment (the handler's `if (discountCode)`),
\* for a request that passed the entity checks: the response it returns early
\* with, or the prices it goes on to store.
CreateDiscount(inp, originalPrice) ==
    LET code == FindActiveCode(discountCodes, inp.discountCode)
        dc == discountCodes[code]
        basePackageApplicable == inp.packageId \in dc.applicablePackages
        applicableAdditionalPackages ==
            SelectSeq(inp.additionalPackages, LAMBDA p : p \in dc.applicablePackages)
        discountableAmount ==
            (IF basePackageApplicable THEN packages[inp.packageId].price ELSE 0)
            + SumPrices(packages, FindPackages(packages, applicableAdditionalPackages))
        discountAmount ==
            IF dc.applicablePackages # {}
            THEN PercentOf(discountableAmount, dc.discountPercent)
            ELSE PercentOf(originalPrice, dc.discountPercent)
    IN  IF inp.discountCode = 0
        THEN [status |-> 201, error |-> "", discountCodeId |-> 0,
              discountAmount |-> 0, finalPrice |-> originalPrice]
        ELSE IF code = 0
        THEN [status |-> 404, error |-> "Invalid discount code"]
        ELSE IF UsageExists(usages, code, inp.clientId)
        THEN [status |-> 400, error |-> "Discount code already used"]
        ELSE IF dc.applicablePackages # {} /\ ~basePackageApplicable
                /\ Len(applicableAdditionalPackages) = 0
        THEN [status |-> 400, error |-> "Discount not applicable"]
        ELSE [status |-> 201, error |-> "", discountCodeId |-> code,
              discountAmount |-> discountAmount,
              finalPrice |-> originalPrice - discountAmount]

\* createAppointment up to its first write: the entity checks, the price and the
\* discount.
CreateCheck(inp) ==
    LET additionalPackagesData == FindPackages(packages, inp.additionalPackages)
        originalPrice ==
            packages[inp.packageId].price + SumPrices(packages, additionalPackagesData)
    IN  IF inp.clientId \notin clients
        THEN [status |-> 404, error |-> "Client not found"]
        ELSE IF inp.packageId \notin DOMAIN packages
        THEN [status |-> 404, error |-> "Package not found"]
        ELSE IF inp.barberId # 0 /\ ~FindActiveBarber(users, inp.barberId)
        THEN [status |-> 404, error |-> "Barber not found"]
        ELSE IF Cardinality(additionalPackagesData) # Len(inp.additionalPackages)
        THEN [status |-> 404, error |-> "Some additional packages not found"]
        ELSE [originalPrice |-> originalPrice] @@ CreateDiscount(inp, originalPrice)

FreeSlots == {s \in Slots : creating[s].pc = "idle"}

\* Appointment ids that requests in flight will still take.
Reserved == Cardinality({s \in Slots : creating[s].pc = "create"})

\* createAppointment, from the request to the point before appointment.create.
CreateBegin(inp) ==
    /\ ops < MaxOps
    /\ FreeSlots # {}
    /\ nextApptId + Reserved <= MaxAppts
    /\ LET c == CreateCheck(inp)
           s == CHOOSE x \in FreeSlots : \A y \in FreeSlots : x <= y
       IN  IF c.status # 201
           THEN /\ lastResp' = Resp("create", c.status, c.error, 0)
                /\ UNCHANGED creating
           ELSE /\ creating' = [creating EXCEPT ![s] =
                        [pc |-> "create", inp |-> inp, originalPrice |-> c.originalPrice,
                         discountCodeId |-> c.discountCodeId,
                         discountAmount |-> c.discountAmount,
                         finalPrice |-> c.finalPrice]]
                /\ UNCHANGED lastResp
    /\ ops' = ops + 1
    /\ UNCHANGED <<packages, users, products, productSales, clients,
                   selling, nextSaleId, editing, nextUserId, tokens,
                   discountCodes, appts, nextApptId,
                   apptDiscounts, usages, now>>

\* A row that stores the discounted price as originalPrice.
NewAppointmentDiscounted(r) ==
    [clientId |-> r.inp.clientId, packageId |-> r.inp.packageId,
     barberId |-> r.inp.barberId, additionalPackages |-> r.inp.additionalPackages,
     appointmentDate |-> r.inp.appointmentDate, createdAt |-> now,
     originalPrice |-> r.finalPrice, finalPrice |-> r.finalPrice,
     discountCodeId |-> r.discountCodeId, discountAmount |-> r.discountAmount,
     status |-> "pending"]

NewAppointment(r) ==
    [clientId |-> r.inp.clientId, packageId |-> r.inp.packageId,
     barberId |-> r.inp.barberId, additionalPackages |-> r.inp.additionalPackages,
     appointmentDate |-> r.inp.appointmentDate, createdAt |-> now,
     originalPrice |-> r.originalPrice, finalPrice |-> r.finalPrice,
     discountCodeId |-> r.discountCodeId, discountAmount |-> r.discountAmount,
     status |-> "pending"]

\* prisma.appointment.create of createAppointment; a request without a discount
\* is answered here.
CreateRow(s) ==
    /\ creating[s].pc = "create"
    /\ appts' = Put(appts, nextApptId, NewAppointment(creating[s]))
    /\ nextApptId' = nextApptId + 1
    /\ IF creating[s].discountCodeId # 0
       THEN /\ creating' = [creating EXCEPT ![s] =
                    [pc |-> "usage", discountCodeId |-> creating[s].discountCodeId,
                     clientId |-> creating[s].inp.clientId, appt |-> nextApptId]]
            /\ UNCHANGED lastResp
       ELSE /\ creating' = [creating EXCEPT ![s] = Idle]
            /\ lastResp' = Resp("create", 201, "", nextApptId)
    /\ UNCHANGED <<packages, users, products, productSales, clients,
                   selling, nextSaleId, editing, nextUserId, tokens,
                   discountCodes, apptDiscounts, usages,
                   now, ops>>

\* prisma.discountCodeUsage.create of createAppointment and the response; a
\* rejected insert is caught by the handler's catch-all.
CreateUsage(s) ==
    /\ creating[s].pc = "usage"
    /\ LET r == creating[s]
       IN  IF UsageCreateOk(usages, r.discountCodeId, r.clientId)
           THEN /\ usages' = UsageCreate(usages, r.discountCodeId, r.clientId, r.appt)
                /\ lastResp' = Resp("create", 201, "", r.appt)
           ELSE /\ UNCHANGED usages
                /\ lastResp' = Resp("create", 500, "Failed to create appointment", r.appt)
    /\ creating' = [creating EXCEPT ![s] = Idle]
    /\ UNCHANGED <<packages, users, products, productSales, clients,
                   selling, nextSaleId, editing, nextUserId, tokens,
                   discountCodes, appts, nextApptId,
                   apptDiscounts, now, ops>>

\* ------------------------------------------------- applyMultipleDiscounts
\* One request of the batch: the thrown error, or the row to apply.  `us` is the
\* DiscountCodeUsage table as the helper's own connection reads it.
ApplyOne(us, req, clientId, packageId, additionalPackages) ==
    LET code == FindActiveCode(discountCodes, req.code)
        dc == discountCodes[code]
        invalidPackages ==
            SelectSeq(req.appliedToPackages, LAMBDA p : p \notin dc.applicablePackages)
        allPackageIds == <<packageId>> \o additionalPackages
        pkgs == FindPackages(packages, allPackageIds)
        \* for (pkgId of appliedToPackages) { pkg = packages.find(...); if (pkg) += }
        priced == SelectSeq(req.appliedToPackages, LAMBDA p : p \in pkgs)
        discountableAmount ==
            SumAmounts([i \in DOMAIN priced |-> [discountAmount |-> packages[priced[i]].price]])
    IN  IF code = 0
        THEN [ok |-> FALSE, error |-> "not found or inactive"]
        ELSE IF UsageExists(us, code, clientId)
        THEN [ok |-> FALSE, error |-> "Client has already used discount code"]
        ELSE IF dc.applicablePackages # {} /\ Len(invalidPackages) > 0
        THEN [ok |-> FALSE, error |-> "does not apply to some selected packages"]
        ELSE [ok |-> TRUE,
              row |-> [discountCodeId |-> code,
                       appliedToPackages |-> req.appliedToPackages,
                       discountAmount |-> PercentOf(discountableAmount, dc.discountPercent)]]

RECURSIVE applyMultipleDiscounts(_, _, _, _, _)
applyMultipleDiscounts(us, discountCodesReq, clientId, packageId, additionalPackages) ==
    IF discountCodesReq = <<>>
    THEN [ok |-> TRUE, appliedDiscounts |-> <<>>, totalDiscountAmount |-> 0]
    ELSE LET one == ApplyOne(us, Head(discountCodesReq), clientId, packageId,
                             additionalPackages)
             rest == applyMultipleDiscounts(us, Tail(discountCodesReq), clientId,
                                            packageId, additionalPackages)
         IN  IF ~one.ok THEN one
             ELSE IF ~rest.ok THEN rest
             ELSE [ok |-> TRUE,
                   appliedDiscounts |-> <<one.row>> \o rest.appliedDiscounts,
                   totalDiscountAmount |->
                       one.row.discountAmount + rest.totalDiscountAmount]

DiscountRow(appt, d) ==
    [appointmentId |-> appt, discountCodeId |-> d.discountCodeId,
     appliedToPackages |-> d.appliedToPackages, discountAmount |-> d.discountAmount]

\* The loop that follows applyMultipleDiscounts in both callers: for each applied
\* discount, appointmentDiscount.create and then discountCodeUsage.create.  The
\* loop stops at the first insert the unique index rejects; `ok` tells whether
\* it ran to its end, D and U are the tables as the loop left them.
RECURSIVE WriteDiscounts(_, _, _, _, _)
WriteDiscounts(D, U, applied, clientId, appt) ==
    IF applied = <<>> THEN [ok |-> TRUE, D |-> D, U |-> U]
    ELSE LET d == Head(applied)
             D1 == D \cup {DiscountRow(appt, d)}
         IN  IF UsageCreateOk(U, d.discountCodeId, clientId)
             THEN WriteDiscounts(D1, UsageCreate(U, d.discountCodeId, clientId, appt),
                                 Tail(applied), clientId, appt)
             ELSE [ok |-> FALSE, D |-> D1, U |-> U]

\* ------------------------------------------------- updateAppointmentStatus
validStatuses == {"pending", "confirmed", "completed", "cancelled"}

\* The fields the request overwrites (updateData before the barber handling).
UpdateData(apt, inp) ==
    [f \in DOMAIN apt |->
        CASE f = "status" /\ Has(inp, "status") -> inp.status
          [] f = "appointmentDate" /\ Has(inp, "appointmentDate")
                /\ inp.appointmentDate # 0 -> inp.appointmentDate
          [] f = "additionalPackages" /\ Has(inp, "additionalPackages") ->
                inp.additionalPackages
          [] f = "finalPrice" /\ Has(inp, "finalPrice") -> inp.finalPrice
          [] f = "discountCodeId" /\ Has(inp, "discountCodeId") -> inp.discountCodeId
          [] f = "discountAmount" /\ Has(inp, "discountAmount") -> inp.discountAmount
          [] OTHER -> apt[f]]

\* A completion that never assigns the acting user.
AutoAssignNever(existing, actor, inp, barberId) == barberId

\* A completion that assigns the acting Boss or Staff user whether or not the
\* appointment has a barber.
AutoAssignAlways(existing, actor, inp, barberId) ==
    IF Has(inp, "status") /\ inp.status = "completed"
       /\ RoleOf(users, actor) \in {"Boss", "Staff"}
    THEN actor
    ELSE barberId

\* Auto-assignment on completion: the acting user becomes the barber when the
\* appointment has none and the user is Boss or Staff.
AutoAssign(existing, actor, inp, barberId) ==
    IF Has(inp, "status") /\ inp.status = "completed"
       /\ RoleOf(users, actor) \in {"Boss", "Staff"} /\ existing.barberId = 0
    THEN actor
    ELSE barberId

\* The transaction of updateAppointmentStatus on the updated row `row`: the
\* tables it commits and its response.  applyMultipleDiscounts reads through
\* the global connection, the writes go through the transaction.  A usage
\* insert of the single-code branch that the unique index refuses is caught
\* inside the callback and the callback returns normally: the transaction is
\* taken to commit, as the handler's catch intends.
UpdateTransaction(A, D, U, id, inp, row) ==
    LET completing == Has(inp, "status") /\ inp.status = "completed"
        additional == IF Has(inp, "additionalPackages") THEN inp.additionalPackages
                      ELSE <<>>
        A1 == Put(A, id, row)
        ok == Resp("update", 200, "", id)
        failed == [appts |-> A, apptDiscounts |-> D, usages |-> U,
                   resp |-> Resp("update", 500, "Failed to update appointment", id)]
    IN  IF completing /\ Has(inp, "multipleDiscountCodes")
           /\ Len(inp.multipleDiscountCodes) > 0
        THEN LET m == applyMultipleDiscounts(U, inp.multipleDiscountCodes,
                                             row.clientId, row.packageId, additional)
                 w == WriteDiscounts(D, U, m.appliedDiscounts, row.clientId, id)
             IN  IF ~m.ok THEN failed
                 ELSE IF ~w.ok THEN failed
                 ELSE [appts |-> A1, apptDiscounts |-> w.D, usages |-> w.U, resp |-> ok]
        ELSE IF completing /\ Has(inp, "discountCodeId") /\ inp.discountCodeId # 0
        THEN \* Legacy single code: a rejected usage insert is caught and logged.
             [appts |-> A1, apptDiscounts |-> D,
              usages |-> IF UsageCreateOk(U, inp.discountCodeId, row.clientId)
                         THEN UsageCreate(U, inp.discountCodeId, row.clientId, id)
                         ELSE U,
              resp |-> ok]
        ELSE [appts |-> A1, apptDiscounts |-> D, usages |-> U, resp |-> ok]

UpdateResult(A, D, U, actor, id, inp) ==
    LET unchanged(status, error) ==
            [appts |-> A, apptDiscounts |-> D, usages |-> U,
             resp |-> Resp("update", status, error, id)]
        existing == A[id]
        completing == Has(inp, "status") /\ inp.status = "completed"
        updateData == UpdateData(existing, inp)
        mayAssign == RoleOf(users, actor) \in {"Boss", "Staff"}
        withBarber ==
            IF Has(inp, "barberId") THEN [updateData EXCEPT !.barberId = inp.barberId]
            ELSE updateData
        row == [withBarber EXCEPT
                    !.barberId = AutoAssign(existing, actor, inp, withBarber.barberId)]
    IN  IF Has(inp, "status") /\ inp.status \notin validStatuses
        THEN unchanged(400, "Invalid status")
        ELSE IF id \notin DOMAIN A
        THEN unchanged(404, "Appointment not found")
        ELSE IF completing /\ Has(inp, "additionalPackages")
                /\ Cardinality(FindPackages(packages, inp.additionalPackages))
                     # Len(inp.additionalPackages)
        THEN unchanged(400, "Invalid additional packages")
        ELSE IF Has(inp, "barberId") /\ ~mayAssign
        THEN unchanged(403, "Permission denied")
        ELSE IF Has(inp, "barberId") /\ inp.barberId # 0
                /\ ~FindActiveBarber(users, inp.barberId)
        THEN unchanged(400, "Invalid barber")
        ELSE UpdateTransaction(A, D, U, id, inp, row)

updateAppointmentStatus(actor, id, inp) ==
    LET r == UpdateResult(appts, apptDiscounts, usages, actor, id, inp)
    IN  /\ ops < MaxOps
        /\ ops' = ops + 1
        /\ appts' = r.appts
        /\ apptDiscounts' = r.apptDiscounts
        /\ usages' = r.usages
        /\ lastResp' = r.resp
        /\ UNCHANGED <<packages, users, products, productSales, clients,
                   selling, nextSaleId, editing, nextUserId, tokens,
                       discountCodes, nextApptId,
                       creating, now>>

\* ------------------------------------------------- editAppointment
\* JS truthiness of an optional id, code or flag of the request body.
Given(inp, f) == Has(inp, f) /\ inp[f] # 0

DeleteUsages(U, code, client, appt) ==
    {u \in U : ~(u.discountCodeId = code /\ u.clientId = client
                 /\ u.appointmentId = appt)}

\* discountCodeUsage.create and, when the unique index rejects it (P2002), the
\* updateMany that points the existing row at this appointment.
UpsertUsage(U, code, client, appt) ==
    IF UsageCreateOk(U, code, client) THEN UsageCreate(U, code, client, appt)
    ELSE {IF u.discountCodeId = code /\ u.clientId = client
          THEN [u EXCEPT !.appointmentId = appt] ELSE u : u \in U}

\* A usage lookup that does not exclude the appointment being edited.
ExistingUsageAnyAppointment(U, code, clientId, id) ==
    \E u \in U : u.discountCodeId = code /\ u.clientId = clientId

\* discountCodeUsage.findFirst of the single-code branch: a usage of the code by
\* the client on another appointment.
ExistingUsage(U, code, clientId, id) ==
    \E u \in U : /\ u.discountCodeId = code
                  /\ u.clientId = clientId
                  /\ u.appointmentId # id

\* The final prisma.appointment.update of editAppointment.
EditUpdate(existing, inp, updatedAdditionalPackages, originalPrice, finalPrice, newDiscountCodeId, discountAmount) ==
    [existing EXCEPT
        !.clientId = IF Given(inp, "clientId") THEN inp.clientId ELSE @,
        !.packageId = IF Given(inp, "packageId") THEN inp.packageId ELSE @,
        !.barberId = IF Has(inp, "barberId") THEN inp.barberId ELSE @,
        !.additionalPackages = updatedAdditionalPackages,
        !.originalPrice = originalPrice,
        !.finalPrice = finalPrice,
        !.discountCodeId = newDiscountCodeId,
        !.discountAmount = discountAmount]

\* The `else if (discountCode)` branch: single code, with discountAppliedTo.
EditSingle(A, D, U, id, inp, existing, targetClientId, targetPackageId, updatedAdditionalPackages, originalPrice) ==
    LET unchanged(status, error) ==
            [appts |-> A, apptDiscounts |-> D, usages |-> U,
             resp |-> Resp("edit", status, error, id)]
        code == FindActiveCode(discountCodes, inp.discountCode)
        dc == discountCodes[code]
        existingUsage == ExistingUsage(U, code, targetClientId, id)
        basePackageApplicable == targetPackageId \in dc.applicablePackages
        applicableAdditionalPackages ==
            SelectSeq(updatedAdditionalPackages, LAMBDA p : p \in dc.applicablePackages)
        appliedTo == IF Has(inp, "discountAppliedTo") THEN inp.discountAppliedTo
                     ELSE [basePackage |-> FALSE, additionalPackages |-> <<>>]
        discountableAmount ==
            (IF appliedTo.basePackage THEN packages[targetPackageId].price ELSE 0)
            + SumPrices(packages, FindPackages(packages, appliedTo.additionalPackages))
        discountAmount == PercentOf(discountableAmount, dc.discountPercent)
        U1 == IF existing.discountCodeId # code
              THEN UpsertUsage(
                      IF existing.discountCodeId # 0
                      THEN DeleteUsages(U, existing.discountCodeId, existing.clientId, id)
                      ELSE U,
                      code, targetClientId, id)
              ELSE U
    IN  IF code = 0 THEN unchanged(404, "Invalid discount code")
        ELSE IF existingUsage THEN unchanged(400, "Discount code already used")
        ELSE IF dc.applicablePackages # {} /\ ~basePackageApplicable
                /\ Len(applicableAdditionalPackages) = 0
        THEN unchanged(400, "Discount not applicable")
        ELSE [appts |-> Put(A, id, EditUpdate(existing, inp, updatedAdditionalPackages,
                                originalPrice, originalPrice - discountAmount,
                                code, discountAmount)),
              apptDiscounts |-> D, usages |-> U1, resp |-> Resp("edit", 200, "", id)]

\* The `else if (multipleDiscountCodes ...)` branch: every write goes through
\* the global connection, one statement at a time.
EditMultiple(A, D, U, id, inp, existing, targetClientId, targetPackageId, updatedAdditionalPackages, originalPrice) ==
    LET D0 == {d \in D : d.appointmentId # id}
        U0 == {u \in U : u.appointmentId # id}
        m == applyMultipleDiscounts(U0, inp.multipleDiscountCodes, targetClientId,
                                    targetPackageId, updatedAdditionalPackages)
        w == WriteDiscounts(D0, U0, m.appliedDiscounts, targetClientId, id)
        failed(D1, U1) ==
            [appts |-> A, apptDiscounts |-> D1, usages |-> U1,
             resp |-> Resp("edit", 400, "Failed to apply discount codes", id)]
    IN  IF ~m.ok THEN failed(D0, U0)
        ELSE IF ~w.ok THEN failed(w.D, w.U)
        ELSE [appts |-> Put(A, id, EditUpdate(existing, inp, updatedAdditionalPackages,
                                originalPrice, originalPrice - m.totalDiscountAmount,
                                0, m.totalDiscountAmount)),
              apptDiscounts |-> w.D, usages |-> w.U, resp |-> Resp("edit", 200, "", id)]

EditResult(A, D, U, actor, id, inp) ==
    LET unchanged(status, error) ==
            [appts |-> A, apptDiscounts |-> D, usages |-> U,
             resp |-> Resp("edit", status, error, id)]
        existing == A[id]
        targetClientId == IF Given(inp, "clientId") THEN inp.clientId
                          ELSE existing.clientId
        targetPackageId == IF Given(inp, "packageId") THEN inp.packageId
                           ELSE existing.packageId
        updatedAdditionalPackages ==
            IF Has(inp, "additionalPackages") THEN inp.additionalPackages
            ELSE existing.additionalPackages
        additionalPackagesData == FindPackages(packages, updatedAdditionalPackages)
        originalPrice == packages[targetPackageId].price
                         + SumPrices(packages, additionalPackagesData)
        done(row, U1) ==
            [appts |-> Put(A, id, row), apptDiscounts |-> D, usages |-> U1,
             resp |-> Resp("edit", 200, "", id)]
    IN  IF RoleOf(users, actor) \notin {"Boss", "Staff"}
        THEN unchanged(403, "Unauthorized")
        ELSE IF id \notin DOMAIN A
        THEN unchanged(404, "Appointment not found")
        ELSE IF Given(inp, "clientId") /\ inp.clientId # existing.clientId
                /\ inp.clientId \notin clients
        THEN unchanged(404, "Client not found")
        ELSE IF Given(inp, "packageId") /\ inp.packageId # existing.packageId
                /\ inp.packageId \notin DOMAIN packages
        THEN unchanged(404, "Package not found")
        ELSE IF Given(inp, "barberId") /\ inp.barberId # existing.barberId
                /\ ~FindActiveBarber(users, inp.barberId)
        THEN unchanged(404, "Barber not found")
        ELSE IF Cardinality(additionalPackagesData) # Len(updatedAdditionalPackages)
        THEN unchanged(404, "Some additional packages not found")
        ELSE IF Has(inp, "removeDiscount") /\ inp.removeDiscount
        THEN done(EditUpdate(existing, inp, updatedAdditionalPackages, originalPrice,
                             originalPrice, 0, 0),
                  IF existing.discountCodeId # 0
                  THEN DeleteUsages(U, existing.discountCodeId, existing.clientId, id)
                  ELSE U)
        ELSE IF Given(inp, "discountCode")
        THEN EditSingle(A, D, U, id, inp, existing, targetClientId, targetPackageId,
                        updatedAdditionalPackages, originalPrice)
        ELSE IF Has(inp, "multipleDiscountCodes") /\ Len(inp.multipleDiscountCodes) > 0
        THEN EditMultiple(A, D, U, id, inp, existing, targetClientId, targetPackageId,
                          updatedAdditionalPackages, originalPrice)
        ELSE IF existing.discountCodeId # 0
        THEN done(EditUpdate(existing, inp, updatedAdditionalPackages, originalPrice,
                             originalPrice - existing.discountAmount,
                             existing.discountCodeId, existing.discountAmount),
                  U)
        ELSE done(EditUpdate(existing, inp, updatedAdditionalPackages, originalPrice,
                             originalPrice, 0, 0),
                  U)

editAppointment(actor, id, inp) ==
    LET r == EditResult(appts, apptDiscounts, usages, actor, id, inp)
    IN  /\ ops < MaxOps
        /\ ops' = ops + 1
        /\ appts' = r.appts
        /\ apptDiscounts' = r.apptDiscounts
        /\ usages' = r.usages
        /\ lastResp' = r.resp
        /\ UNCHANGED <<packages, users, products, productSales, clients,
                   selling, nextSaleId, editing, nextUserId, tokens,
                       discountCodes, nextApptId,
                       creating, now>>

\* ------------------------------------------------- resetMonthlySummary
\* A date filter without the walk-in fallback: rows without
\* appointmentDate are never in a range.
InDateRangeNoFallback(apt, startDate, endDate) ==
    apt.appointmentDate # 0 /\ startDate <= apt.appointmentDate
                            /\ apt.appointmentDate <= endDate

\* The date filter shared by the reports and the reset: appointmentDate in the
\* range, or no appointmentDate and createdAt in the range.
InDateRange(apt, startDate, endDate) ==
    \/ apt.appointmentDate # 0 /\ startDate <= apt.appointmentDate
                               /\ apt.appointmentDate <= endDate
    \/ apt.appointmentDate = 0 /\ startDate <= apt.createdAt
                               /\ apt.createdAt <= endDate

resetMonthlySummary(actor, startDate, endDate) ==
    /\ ops < MaxOps
    /\ ops' = ops + 1
    /\ IF RoleOf(users, actor) # "Boss"
       THEN /\ lastResp' = Resp("reset", 403, "Permission denied", 0)
            /\ UNCHANGED appts
       ELSE /\ appts' = [i \in DOMAIN appts |->
                    IF InDateRange(appts[i], startDate, endDate)
                    THEN [appts[i] EXCEPT !.status = "pending", !.finalPrice = NULL]
                    ELSE appts[i]]
            /\ lastResp' = Resp("reset", 200, "", 0)
    /\ UNCHANGED <<packages, users, products, productSales, clients,
                   selling, nextSaleId, editing, nextUserId, tokens,
                   discountCodes, nextApptId,
                   apptDiscounts, usages, creating, now>>

\* No createAppointment request is between its steps.
Quiet == \A s \in Slots : creating[s].pc = "idle"

Days == {1, 2}

\* ------------------------------------------------- first revision of createAppointment
\* The handler before discounts and originalPrice existed: the row carries the
\* total as finalPrice and no originalPrice.
createAppointmentV1(inp) ==
    /\ ops < MaxOps
    /\ Quiet
    /\ nextApptId <= MaxAppts
    /\ ops' = ops + 1
    /\ LET additionalPackagesData == FindPackages(packages, inp.additionalPackages)
           totalPrice == packages[inp.packageId].price
                         + SumPrices(packages, additionalPackagesData)
           failed(status, error) ==
               /\ lastResp' = Resp("create", status, error, 0)
               /\ UNCHANGED <<appts, nextApptId>>
       IN  IF inp.clientId \notin clients THEN failed(404, "Client not found")
           ELSE IF inp.packageId \notin DOMAIN packages
           THEN failed(404, "Package not found")
           ELSE IF inp.barberId # 0 /\ ~FindActiveBarber(users, inp.barberId)
           THEN failed(404, "Barber not found")
           ELSE IF Cardinality(additionalPackagesData) # Len(inp.additionalPackages)
           THEN failed(404, "Some additional packages not found")
           ELSE /\ appts' = Put(appts, nextApptId,
                        [clientId |-> inp.clientId, packageId |-> inp.packageId,
                         barberId |-> inp.barberId,
                         additionalPackages |-> inp.additionalPackages,
                         appointmentDate |-> inp.appointmentDate, createdAt |-> now,
                         originalPrice |-> NULL, finalPrice |-> totalPrice,
                         discountCodeId |-> 0, discountAmount |-> 0,
                         status |-> "pending"])
                /\ nextApptId' = nextApptId + 1
                /\ lastResp' = Resp("create", 201, "", nextApptId)
    /\ UNCHANGED <<packages, users, products, productSales, clients,
                   selling, nextSaleId, editing, nextUserId, tokens,
                   discountCodes, apptDiscounts, usages,
                   creating, now>>

\* ------------------------------------------------- financial reports
\* The date filter of a report: none, or a range of days.
NoFilter == [all |-> TRUE]
DateFilter(startDate, endDate) ==
    [all |-> FALSE, startDate |-> startDate, endDate |-> endDate]

\* where: { status: 'completed', finalPrice: { not: null }, ...dateFilter }
CompletedAppointments(filter) ==
    {id \in DOMAIN appts :
        /\ appts[id].status = "completed"
        /\ appts[id].finalPrice # NULL
        /\ filter.all \/ InDateRange(appts[id], filter.startDate, filter.endDate)}

\* A commission base that prefers the discounted price.
PriceForCommissionFinalFirst(apt) ==
    IF apt.finalPrice # NULL /\ apt.finalPrice # 0 THEN apt.finalPrice
    ELSE IF apt.originalPrice # NULL /\ apt.originalPrice # 0 THEN apt.originalPrice
    ELSE 0

\* apt.originalPrice || apt.finalPrice || 0
PriceForCommission(apt) ==
    IF apt.originalPrice # NULL /\ apt.originalPrice # 0 THEN apt.originalPrice
    ELSE IF apt.finalPrice # NULL /\ apt.finalPrice # 0 THEN apt.finalPrice
    ELSE 0

\* reduce((sum, x) => sum + f[x], 0) over the rows `ids`.
RECURSIVE SumOver(_, _)
SumOver(ids, f) ==
    IF ids = {} THEN 0
    ELSE LET x == CHOOSE y \in ids : TRUE
         IN  f[x] + SumOver(ids \ {x}, f)

\* Commissions are held times 100: price in cents times rate in percent.
\* getFinancialOverview: the appointment part of totalCommissionPaid.
OverviewCommission(filter) ==
    LET perApt == [id \in DOMAIN appts |->
            IF appts[id].barberId # 0 /\ users[appts[id].barberId].commissionRate # 0
            THEN PriceForCommission(appts[id]) * users[appts[id].barberId].commissionRate
            ELSE 0]
    IN  SumOver(CompletedAppointments(filter), perApt)

\* getBarberPerformance: serviceCommission of one active Boss or Staff user.
BarberServiceCommission(barber, filter) ==
    LET mine == {id \in CompletedAppointments(filter) : appts[id].barberId = barber}
        base == [id \in DOMAIN appts |-> PriceForCommission(appts[id])]
    IN  SumOver(mine, base) * users[barber].commissionRate

\* getStaffFinancialReport: appointmentEarnings of the acting user.
StaffAppointmentEarnings(user, filter) ==
    LET mine == {id \in CompletedAppointments(filter) : appts[id].barberId = user}
        base == [id \in DOMAIN appts |-> PriceForCommission(appts[id])]
    IN  SumOver(mine, base) * users[user].commissionRate

ReportFilters == {NoFilter} \cup {DateFilter(d, d) : d \in Days}

\* getFinancialOverview: appointmentRevenue, the sum of finalPrice.
OverviewRevenue(filter) ==
    SumOver(CompletedAppointments(filter),
            [id \in DOMAIN appts |-> ToNumber(appts[id].finalPrice)])

\* getFinancialOverview: totalCustomers, the distinct clients served.
OverviewCustomers(filter) ==
    Cardinality({appts[id].clientId : id \in CompletedAppointments(filter)})

\* getBarberPerformance: appointmentSalesRevenue of one barber, over the
\* barber's appointments under the same where clause.
BarberSalesRevenue(barber, filter) ==
    SumOver({id \in CompletedAppointments(filter) : appts[id].barberId = barber},
            [id \in DOMAIN appts |-> ToNumber(appts[id].finalPrice)])

\* getServiceBreakdown: how often package `pkg` is counted for appointment `id`,
\* once as base package and once per occurrence among the additional packages.
ServiceOccurrences(id, pkg) ==
    (IF appts[id].packageId = pkg THEN 1 ELSE 0)
    + Len(SelectSeq(appts[id].additionalPackages, LAMBDA p : p = pkg))

\* getServiceBreakdown: count of the service `pkg`.
ServiceCount(pkg, filter) ==
    SumOver(CompletedAppointments(filter),
            [id \in DOMAIN appts |-> ServiceOccurrences(id, pkg)])

\* getServiceBreakdown: what appointment `id` adds to totalRevenue of the
\* service `pkg`, the package's listed price per occurrence.
ServiceRevenueOf(id, pkg) == ServiceOccurrences(id, pkg) * packages[pkg].price

\* getStaffFinancialReport: totalPackagePrice of appointment `id`, the listed
\* prices of its base package and of its additional packages.
TotalPackagePrice(id) ==
    SumOver(DOMAIN packages,
            [pkg \in DOMAIN packages |-> ServiceOccurrences(id, pkg) * packages[pkg].price])

\* getStaffFinancialReport: what appointment `id` adds to totalRevenue of the
\* service `pkg`, finalPrice * (price / totalPackagePrice), as a fraction.
StaffServiceRevenueOf(id, pkg) ==
    IF TotalPackagePrice(id) > 0
    THEN [num |-> ToNumber(appts[id].finalPrice)
                  * ServiceOccurrences(id, pkg) * packages[pkg].price,
          den |-> TotalPackagePrice(id)]
    ELSE [num |-> IF appts[id].packageId = pkg THEN ToNumber(appts[id].finalPrice)
                  ELSE 0,
          den |-> 1]

\* getServiceBreakdown: totalRevenue of the service `pkg`.
ServiceRevenue(pkg, filter) ==
    SumOver(CompletedAppointments(filter),
            [id \in DOMAIN appts |-> ServiceRevenueOf(id, pkg)])

\* ------------------------------------------------- requests of the model
\* multipleDiscountCodes of a request: one code, two codes, the same code twice,
\* an inactive code after a good one, a code on a package it does not cover.
MultiInputs ==
    LET e1 == [code |-> 1, appliedToPackages |-> <<1>>]
        e2 == [code |-> 2, appliedToPackages |-> <<2>>]
    IN  { <<e1>>, <<e1, e2>>, <<e1, e1>>,
          <<e1, [code |-> 3, appliedToPackages |-> <<1>>]>>,
          <<[code |-> 2, appliedToPackages |-> <<1>>]>> }

\* Requests of the discount ledger: base package 1 with additional package 2.
CreateInputs ==
    [clientId : ClientIds, packageId : {1}, barberId : {0},
     additionalPackages : {<<2>>}, appointmentDate : {0},
     discountCode : {0} \cup CodeIds]

UpdateInputs ==
    {[status |-> "completed", finalPrice |-> 1000]}
    \cup {[status |-> "completed", discountCodeId |-> c] : c \in {1, 2}}
    \cup {[status |-> "completed", additionalPackages |-> <<2>>,
           multipleDiscountCodes |-> m] : m \in MultiInputs}

EditInputs ==
    {<<>>, [packageId |-> 2], [additionalPackages |-> <<>>],
     [removeDiscount |-> TRUE]}
    \cup {[clientId |-> c] : c \in ClientIds}
    \cup {[discountCode |-> c,
           discountAppliedTo |-> [basePackage |-> TRUE, additionalPackages |-> ap]] :
            c \in CodeIds, ap \in {<<>>, <<2>>}}
    \cup {[clientId |-> 2, discountCode |-> 1,
           discountAppliedTo |-> [basePackage |-> TRUE, additionalPackages |-> <<>>]]}
    \cup {[multipleDiscountCodes |-> m] : m \in MultiInputs}
    \cup {[clientId |-> 2, multipleDiscountCodes |-> <<[code |-> 1, appliedToPackages |-> <<1>>]>>]}

\* ------------------------------------------------- specification
Init ==
    /\ packages = (1 :> [price |-> 5000]) @@ (2 :> [price |-> 3000])
    /\ users = (1 :> [role |-> "Boss", isActive |-> TRUE, commissionRate |-> 40,
                    productCommissionRate |-> 5, email |-> 1,
                    password |-> GoodPassword])
             @@ (2 :> [role |-> "Staff", isActive |-> TRUE, commissionRate |-> 40,
                    productCommissionRate |-> 5, email |-> 2,
                    password |-> GoodPassword])
             @@ (3 :> [role |-> "Client", isActive |-> TRUE, commissionRate |-> 40,
                    productCommissionRate |-> 5, email |-> 3,
                    password |-> GoodPassword])
    /\ products = (1 :> [price |-> 2000, stock |-> 1, isActive |-> TRUE])
                @@ (2 :> [price |-> 1500, stock |-> NULL, isActive |-> FALSE])
    /\ productSales = <<>>
    /\ tokens = {[userId |-> 1, role |-> "Boss"], [userId |-> 2, role |-> "Staff"]}
    /\ nextUserId = 4
    /\ editing = [pc |-> "idle"]
    /\ nextSaleId = 1
    /\ selling = [s \in Slots |-> Idle]
    /\ clients = ClientIds
    /\ discountCodes =
            (1 :> [discountType |-> "percentage", discountPercent |-> 10,
                   discountAmount |-> NULL, applicablePackages |-> {},
                   isActive |-> TRUE])
         @@ (2 :> [discountType |-> "percentage", discountPercent |-> 50,
                   discountAmount |-> NULL, applicablePackages |-> {2},
                   isActive |-> TRUE])
         @@ (3 :> [discountType |-> "percentage", discountPercent |-> 20,
                   discountAmount |-> NULL, applicablePackages |-> {},
                   isActive |-> FALSE])
         @@ (4 :> [discountType |-> "fixed_amount", discountPercent |-> NULL,
                   discountAmount |-> 1000, applicablePackages |-> {},
                   isActive |-> TRUE])
    /\ appts = <<>>
    /\ nextApptId = 1
    /\ apptDiscounts = {}
    /\ usages = {}
    /\ creating = [s \in Slots |-> Idle]
    /\ now = 1
    /\ ops = 0
    /\ lastResp = Resp("none", 0, "", 0)

\* Requests are served one at a time: the discount ledger and the prices.
Next ==
    \/ Quiet /\ \E inp \in CreateInputs : CreateBegin(inp)
    \/ \E s \in Slots : CreateRow(s)
    \/ \E s \in Slots : CreateUsage(s)
    \/ Quiet /\ \E id \in DOMAIN appts, inp \in UpdateInputs :
            updateAppointmentStatus(2, id, inp)
    \/ Quiet /\ \E actor \in {1, 3}, id \in DOMAIN appts, inp \in EditInputs :
            editAppointment(actor, id, inp)

Spec == Init /\ [][Next]_vars

\* Requests that touch the usage ledger, createAppointment running concurrently
\* with the other requests.
RaceCreateInputs ==
    [clientId : {1}, packageId : {1}, barberId : {0},
     additionalPackages : {<<2>>}, appointmentDate : {0}, discountCode : {0, 1, 2}]

RaceUpdateInputs ==
    {[status |-> "completed", discountCodeId |-> 1],
     [status |-> "completed", additionalPackages |-> <<2>>,
      multipleDiscountCodes |-> <<[code |-> 1, appliedToPackages |-> <<1>>],
                                  [code |-> 1, appliedToPackages |-> <<1>>]>>]}

RaceEditInputs ==
    {[removeDiscount |-> TRUE], [clientId |-> 2],
     [discountCode |-> 1,
      discountAppliedTo |-> [basePackage |-> TRUE, additionalPackages |-> <<>>]],
     [multipleDiscountCodes |-> <<[code |-> 1, appliedToPackages |-> <<1>>],
                                  [code |-> 2, appliedToPackages |-> <<2>>]>>]}

NextRace ==
    \/ \E inp \in RaceCreateInputs : CreateBegin(inp)
    \/ \E s \in Slots : CreateRow(s)
    \/ \E s \in Slots : CreateUsage(s)
    \/ \E id \in DOMAIN appts, inp \in RaceUpdateInputs :
            updateAppointmentStatus(2, id, inp)
    \/ \E id \in DOMAIN appts, inp \in RaceEditInputs :
            editAppointment(1, id, inp)

SpecRace == Init /\ [][NextRace]_vars

\* createAppointment requests alone, running concurrently.
NextCreate ==
    \/ \E inp \in CreateInputs : CreateBegin(inp)
    \/ \E s \in Slots : CreateRow(s)
    \/ \E s \in Slots : CreateUsage(s)

SpecCreate == Init /\ [][NextCreate]_vars

\* The appointment lifecycle: status, barber, monthly reset, and the rows the
\* reports read.
LifeCreateInputs ==
    [clientId : {1}, packageId : {1}, barberId : {0, 2},
     additionalPackages : {<<2>>}, appointmentDate : {0, 2}, discountCode : {0, 1}]

LifeCreateV1Inputs ==
    [clientId : {1}, packageId : {1}, barberId : {2},
     additionalPackages : {<<>>}, appointmentDate : {0}]

LifeUpdateInputs ==
    {[status |-> st] : st \in validStatuses \cup {"done"}}
    \cup {[status |-> "completed", finalPrice |-> 1000],
          [status |-> "completed", barberId |-> 2]}
    \cup {[barberId |-> b] : b \in {0, 2, 3}}

LifeEditInputs == {<<>>, [barberId |-> 0], [additionalPackages |-> <<>>]}

NextLife ==
    \/ Quiet /\ \E inp \in LifeCreateInputs : CreateBegin(inp)
    \/ \E s \in Slots : CreateRow(s)
    \/ \E s \in Slots : CreateUsage(s)
    \/ \E inp \in LifeCreateV1Inputs : createAppointmentV1(inp)
    \/ Quiet /\ \E actor \in UserIds, id \in DOMAIN appts, inp \in LifeUpdateInputs :
            updateAppointmentStatus(actor, id, inp)
    \/ Quiet /\ \E actor \in UserIds, id \in DOMAIN appts, inp \in LifeEditInputs :
            editAppointment(actor, id, inp)
    \/ Quiet /\ \E actor \in UserIds, day \in Days :
            resetMonthlySummary(actor, day, day)

SpecLife == Init /\ [][NextLife]_vars

\* ------------------------------------------------- properties
Max(a, b) == IF a >= b THEN a ELSE b

\* C9. editAppointment is idempotent: in every reachable state, for every
\* appointment and every edit request, a first run that succeeds is followed by
\* a second run of the same request that succeeds and leaves the appointment's
\* prices and discount, the AppointmentDiscount rows and the DiscountCodeUsage
\* rows as the first run left them.
C9_EditIdempotent ==
    \A id \in DOMAIN appts, inp \in EditInputs :
        LET r1 == EditResult(appts, apptDiscounts, usages, 1, id, inp)
            r2 == EditResult(r1.appts, r1.apptDiscounts, r1.usages, 1, id, inp)
        IN  r1.resp.status = 200 =>
                /\ r2.resp.status = 200
                /\ r2.appts = r1.appts
                /\ r2.apptDiscounts = r1.apptDiscounts
                /\ r2.usages = r1.usages

\* A state reached by a successful edit that applied discount codes and whose
\* repetition changes nothing.
C9_Witness ==
    /\ lastResp.op = "edit" /\ lastResp.status = 200
    /\ \E id \in DOMAIN appts, inp \in EditInputs :
        LET r == EditResult(appts, apptDiscounts, usages, 1, id, inp)
        IN  /\ Has(inp, "multipleDiscountCodes")
            /\ appts[id].discountAmount # 0
            /\ \E u \in usages : u.appointmentId = id
            /\ r.resp.status = 200 /\ r.appts = appts
            /\ r.apptDiscounts = apptDiscounts /\ r.usages = usages

\* C1. Every appointment satisfies
\* finalPrice = max(0, originalPrice - discountAmount), a null discountAmount
\* counting as 0.
C1_FinalPriceFormula ==
    \A id \in DOMAIN appts :
        appts[id].finalPrice =
            Max(0, appts[id].originalPrice - appts[id].discountAmount)

\* The client has a usage record for the code on another appointment.
UsedElsewhere(code, client, id) ==
    \E u \in usages : /\ u.discountCodeId = code /\ u.clientId = client
                       /\ u.appointmentId # id

\* A step that answers a request with DiscountAlreadyUsed and writes nothing.
RejectedAsUsed ==
    /\ lastResp'.error = "Discount code already used"
    /\ UNCHANGED <<appts, apptDiscounts, usages, creating>>

\* C2. Once a client has a usage record for a code, every later single-code
\* attempt to apply the code for that client to another appointment
\* (createAppointment with discountCode, editAppointment with discountCode,
\* updateAppointmentStatus completing with discountCodeId) fails with
\* DiscountAlreadyUsed and applies no discount.
C2_SingleUseEnforced ==
    [][ /\ \A inp \in CreateInputs :
            (/\ FindActiveCode(discountCodes, inp.discountCode) # 0
             /\ UsageExists(usages, inp.discountCode, inp.clientId)
             /\ CreateBegin(inp)) => RejectedAsUsed
        /\ \A id \in DOMAIN appts, inp \in EditInputs :
            (/\ Given(inp, "discountCode")
             /\ FindActiveCode(discountCodes, inp.discountCode) # 0
             /\ UsedElsewhere(inp.discountCode,
                              IF Given(inp, "clientId") THEN inp.clientId
                              ELSE appts[id].clientId, id)
             /\ editAppointment(1, id, inp)) => RejectedAsUsed
        /\ \A id \in DOMAIN appts, inp \in UpdateInputs :
            (/\ Given(inp, "discountCodeId")
             /\ ~Has(inp, "multipleDiscountCodes")
             /\ UsedElsewhere(inp.discountCodeId, appts[id].clientId, id)
             /\ updateAppointmentStatus(2, id, inp)) => RejectedAsUsed
      ]_vars

\* C6. A multi-code request that is answered with a failure persists no
\* AppointmentDiscount row and no DiscountCodeUsage row of its batch.
C6_BatchAllOrNothing ==
    [][ \A id \in DOMAIN appts :
            (/\ \/ \E inp \in EditInputs :
                      /\ Has(inp, "multipleDiscountCodes")
                      /\ editAppointment(1, id, inp)
                \/ \E inp \in UpdateInputs :
                      /\ Has(inp, "multipleDiscountCodes")
                      /\ updateAppointmentStatus(2, id, inp)
             /\ lastResp'.status # 200)
            => /\ apptDiscounts' \subseteq apptDiscounts
               /\ usages' \subseteq usages
      ]_vars

\* C3. The DiscountCodeUsage table holds at most one row per
\* (discountCodeId, clientId) pair, in every state of every interleaving.
C3_OneUsagePerCodeAndClient ==
    \A u1 \in usages, u2 \in usages :
        (u1.discountCodeId = u2.discountCodeId /\ u1.clientId = u2.clientId)
            => u1 = u2

\* Two appointments of one client carry the same code, the second insert for
\* the pair was refused, and the table holds the one row.
C3_Witness ==
    /\ lastResp.op = "create" /\ lastResp.status = 500
    /\ \E a \in DOMAIN appts, b \in DOMAIN appts :
        /\ a # b
        /\ appts[a].discountCodeId # 0
        /\ appts[a].discountCodeId = appts[b].discountCodeId
        /\ appts[a].clientId = appts[b].clientId
        /\ UsageExists(usages, appts[a].discountCodeId, appts[a].clientId)

\* The base the claim names: originalPrice, and finalPrice only when
\* originalPrice is absent.
ClaimedCommissionBase(apt) ==
    IF apt.originalPrice # NULL THEN apt.originalPrice ELSE apt.finalPrice

ClaimedCommission(ids) ==
    SumOver(ids, [id \in DOMAIN appts |->
        IF appts[id].barberId = 0 THEN 0
        ELSE ClaimedCommissionBase(appts[id])
             * users[appts[id].barberId].commissionRate])

\* C4. In the financial overview, the per-barber performance and the staff
\* report, the commission counted for a completed appointment is
\* originalPrice x commissionRate / 100 whatever finalPrice and the discount are,
\* and finalPrice x commissionRate / 100 only when originalPrice is absent.
\* The appointments counted are the ones the reports read: completed, with a
\* finalPrice that is not null, in the date range asked for.
C4_CommissionOnOriginalPrice ==
    \A filter \in ReportFilters :
        /\ OverviewCommission(filter) = ClaimedCommission(CompletedAppointments(filter))
        /\ \A b \in {u \in DOMAIN users : FindActiveBarber(users, u)} :
            LET mine == {id \in CompletedAppointments(filter) :
                            appts[id].barberId = b}
            IN  /\ BarberServiceCommission(b, filter) = ClaimedCommission(mine)
                /\ StaffAppointmentEarnings(b, filter) = ClaimedCommission(mine)

\* A completed, discounted appointment of a barber is in the reports.
C4_Witness ==
    /\ \E id \in CompletedAppointments(NoFilter) :
        /\ appts[id].barberId # 0
        /\ appts[id].originalPrice # NULL
        /\ appts[id].discountAmount # 0
        /\ appts[id].finalPrice # appts[id].originalPrice
        /\ OverviewCommission(NoFilter) > 0

\* A completed appointment of a barber without originalPrice is in the reports.
C4_FallbackReached ==
    \E id \in CompletedAppointments(NoFilter) :
        /\ appts[id].barberId # 0
        /\ appts[id].originalPrice = NULL
        /\ OverviewCommission(NoFilter) > 0

AllowedTransitions ==
    {<<"pending", "confirmed">>, <<"confirmed", "completed">>,
     <<"pending", "cancelled">>, <<"confirmed", "cancelled">>}

\* C5. The status of an appointment only moves along pending -> confirmed,
\* confirmed -> completed, pending -> cancelled and confirmed -> cancelled; a
\* completed or cancelled appointment never changes status again.
C5_StatusMachine ==
    [][ \A id \in DOMAIN appts :
            appts'[id].status # appts[id].status
                => <<appts[id].status, appts'[id].status>> \in AllowedTransitions
      ]_vars

\* The createAppointment request that wrote appointment `id` is still between
\* its appointment insert and its usage insert.
StillCreating(id) ==
    \E s \in Slots : creating[s].pc = "usage" /\ creating[s].appt = id

\* C7. createAppointment writes the appointment and its usage record
\* atomically: no appointment is persisted with discountCodeId set and the
\* discount deducted from finalPrice while no usage row exists for
\* (code, client, appointment).  Only the appointments whose request has been
\* answered are counted, so the state left by a refused usage insert is.
C7_AppointmentHasUsage ==
    \A id \in DOMAIN appts :
        (/\ appts[id].discountCodeId # 0
         /\ appts[id].finalPrice = appts[id].originalPrice - appts[id].discountAmount
         /\ ~StillCreating(id))
            => UsageRow(appts[id].discountCodeId, appts[id].clientId, id) \in usages

\* C8. A usage insert of createAppointment that the unique index refuses is
\* answered with DiscountAlreadyUsed, not with an internal error, and the
\* refused request ends with no discounted appointment.
C8_RaceAnsweredAsUsed ==
    [][ \A s \in Slots :
            (/\ creating[s].pc = "usage"
             /\ ~UsageCreateOk(usages, creating[s].discountCodeId, creating[s].clientId)
             /\ CreateUsage(s))
            => /\ lastResp'.status # 500
               /\ lastResp'.error = "Discount code already used"
               /\ \/ creating[s].appt \notin DOMAIN appts'
                  \/ appts'[creating[s].appt].discountCodeId = 0
      ]_vars

\* C10. A successful updateAppointmentStatus that completes an appointment with
\* no barber leaves barberId equal to the acting user's id when that user is
\* Boss or Staff, and leaves it null for any other acting user.
C10_AutoAssignOnCompletion ==
    [][ \A actor \in UserIds, id \in DOMAIN appts, inp \in LifeUpdateInputs :
            (/\ Has(inp, "status") /\ inp.status = "completed"
             /\ appts[id].barberId = 0
             /\ updateAppointmentStatus(actor, id, inp)
             /\ lastResp'.status = 200)
            => appts'[id].barberId =
                    IF RoleOf(users, actor) \in {"Boss", "Staff"} THEN actor ELSE 0
      ]_vars

\* The Boss completed an appointment that had no barber: no request of the
\* model names user 1 as barber.
C10_Witness ==
    /\ lastResp.op = "update" /\ lastResp.status = 200
    /\ \E id \in DOMAIN appts :
            appts[id].status = "completed" /\ appts[id].barberId = 1

\* The amount the claim names as discountable for code `code` on appointment
\* row `apt`: everything for an unrestricted code, else the appointment's
\* packages (base and additional) that the code lists.
ClaimedDiscountable(apt, code) ==
    LET dc == discountCodes[code]
        listed == SelectSeq(apt.additionalPackages, LAMBDA p : p \in dc.applicablePackages)
    IN  IF dc.applicablePackages = {} THEN apt.originalPrice
        ELSE (IF apt.packageId \in dc.applicablePackages
              THEN packages[apt.packageId].price ELSE 0)
             + SumPrices(packages, FindPackages(packages, listed))

\* Row `apt` carries code `code` with the discount the claim names.
ClaimedDiscountApplied(apt, code) ==
    /\ apt.discountCodeId = code
    /\ apt.discountAmount =
            PercentOf(ClaimedDiscountable(apt, code), discountCodes[code].discountPercent)
    /\ apt.finalPrice = apt.originalPrice - apt.discountAmount

\* C11. A percentage code applied by createAppointment or by editAppointment
\* gives discountAmount = discountableAmount x discountPercent / 100 rounded
\* half up to the cent, discountableAmount being originalPrice for an
\* unrestricted code and otherwise the sum of the prices of the appointment's
\* packages that the code lists.
C11_PercentageDiscountAmount ==
    [][ /\ \A id \in DOMAIN appts' \ DOMAIN appts :
            appts'[id].discountCodeId # 0
                => ClaimedDiscountApplied(appts'[id], appts'[id].discountCodeId)
        /\ \A id \in DOMAIN appts, inp \in EditInputs :
            (/\ Given(inp, "discountCode")
             /\ editAppointment(1, id, inp)
             /\ lastResp'.status = 200)
            => ClaimedDiscountApplied(appts'[id], inp.discountCode)
      ]_vars

\* The same for createAppointment alone.
C11_CreateAmount ==
    [][ \A id \in DOMAIN appts' \ DOMAIN appts :
            appts'[id].discountCodeId # 0
                => ClaimedDiscountApplied(appts'[id], appts'[id].discountCodeId)
      ]_vars

\* ------------------------------------------------- restricted codes
\* Requests about code 2, which lists package 2 only, on appointments with and
\* without package 2.
ApplicableCreateInputs ==
    [clientId : {1}, packageId : {1}, barberId : {0},
     additionalPackages : {<<>>, <<2>>}, appointmentDate : {0},
     discountCode : {0, 2}]

ApplicableMultiInputs ==
    {<<[code |-> 2, appliedToPackages |-> a]>> : a \in {<<>>, <<1>>, <<2>>}}

ApplicableEditInputs ==
    {[discountCode |-> 2,
      discountAppliedTo |-> [basePackage |-> TRUE, additionalPackages |-> <<>>]]}
    \cup {[multipleDiscountCodes |-> m] : m \in ApplicableMultiInputs}

ApplicableUpdateInputs ==
    {[status |-> "completed", multipleDiscountCodes |-> m] : m \in ApplicableMultiInputs}

NextApplicable ==
    \/ Quiet /\ \E inp \in ApplicableCreateInputs : CreateBegin(inp)
    \/ \E s \in Slots : CreateRow(s)
    \/ \E s \in Slots : CreateUsage(s)
    \/ Quiet /\ \E id \in DOMAIN appts, inp \in ApplicableUpdateInputs :
            updateAppointmentStatus(2, id, inp)
    \/ Quiet /\ \E id \in DOMAIN appts, inp \in ApplicableEditInputs :
            editAppointment(1, id, inp)

SpecApplicable == Init /\ [][NextApplicable]_vars

\* Active code `code` lists packages and none of them is the base package or one
\* of the additional packages.
NotApplicableTo(code, packageId, additionalPackages) ==
    /\ FindActiveCode(discountCodes, code) # 0
    /\ discountCodes[code].applicablePackages # {}
    /\ discountCodes[code].applicablePackages
            \cap ({packageId} \cup Range(additionalPackages)) = {}

\* A step that refuses the request and writes no discount, no usage row and no
\* AppointmentDiscount row.
RefusedNothingWritten ==
    /\ lastResp'.status \notin {200, 201}
    /\ apptDiscounts' \subseteq apptDiscounts
    /\ usages' \subseteq usages
    /\ UNCHANGED <<appts, creating>>

\* C12. A code that lists packages, none of them a package of the appointment,
\* is rejected with DiscountNotApplicable and nothing is written, in
\* createAppointment, in editAppointment and in the multi-code path, whatever
\* appliedToPackages the request carries.
C12_NotApplicableRejected ==
    [][ /\ \A inp \in ApplicableCreateInputs :
            (/\ NotApplicableTo(inp.discountCode, inp.packageId, inp.additionalPackages)
             /\ ~UsageExists(usages, inp.discountCode, inp.clientId)
             /\ CreateBegin(inp))
            => RefusedNothingWritten /\ lastResp'.error = "Discount not applicable"
        /\ \A id \in DOMAIN appts, inp \in ApplicableEditInputs :
            (/\ Given(inp, "discountCode")
             /\ NotApplicableTo(inp.discountCode, appts[id].packageId,
                                appts[id].additionalPackages)
             /\ ~UsageExists(usages, inp.discountCode, appts[id].clientId)
             /\ editAppointment(1, id, inp))
            => RefusedNothingWritten /\ lastResp'.error = "Discount not applicable"
        /\ \A id \in DOMAIN appts, inp \in ApplicableEditInputs :
            (/\ Has(inp, "multipleDiscountCodes")
             /\ \E i \in DOMAIN inp.multipleDiscountCodes :
                    /\ NotApplicableTo(inp.multipleDiscountCodes[i].code,
                                       appts[id].packageId, appts[id].additionalPackages)
                    /\ ~UsageExists(usages, inp.multipleDiscountCodes[i].code,
                                    appts[id].clientId)
             /\ editAppointment(1, id, inp))
            => RefusedNothingWritten
        /\ \A id \in DOMAIN appts, inp \in ApplicableUpdateInputs :
            (/\ \E i \in DOMAIN inp.multipleDiscountCodes :
                    /\ NotApplicableTo(inp.multipleDiscountCodes[i].code,
                                       appts[id].packageId, appts[id].additionalPackages)
                    /\ ~UsageExists(usages, inp.multipleDiscountCodes[i].code,
                                    appts[id].clientId)
             /\ updateAppointmentStatus(2, id, inp))
            => RefusedNothingWritten
      ]_vars

\* The same for the single-code requests alone.
C12_SingleCodeRejected ==
    [][ /\ \A inp \in ApplicableCreateInputs :
            (/\ NotApplicableTo(inp.discountCode, inp.packageId, inp.additionalPackages)
             /\ ~UsageExists(usages, inp.discountCode, inp.clientId)
             /\ CreateBegin(inp))
            => RefusedNothingWritten /\ lastResp'.error = "Discount not applicable"
        /\ \A id \in DOMAIN appts, inp \in ApplicableEditInputs :
            (/\ Given(inp, "discountCode")
             /\ NotApplicableTo(inp.discountCode, appts[id].packageId,
                                appts[id].additionalPackages)
             /\ ~UsageExists(usages, inp.discountCode, appts[id].clientId)
             /\ editAppointment(1, id, inp))
            => RefusedNothingWritten /\ lastResp'.error = "Discount not applicable"
      ]_vars

\* ------------------------------------------------- fixed-amount codes
\* Requests about code 4, a fixed_amount code of 10.00 on every package.
FixedCreateInputs ==
    [clientId : ClientIds, packageId : {1}, barberId : {0},
     additionalPackages : {<<>>, <<2>>}, appointmentDate : {0},
     discountCode : {0, 4}]

FixedMultiInputs ==
    {<<[code |-> 4, appliedToPackages |-> a]>> : a \in {<<1>>, <<1, 2>>}}

FixedEditInputs ==
    {[discountCode |-> 4,
      discountAppliedTo |-> [basePackage |-> TRUE, additionalPackages |-> ap]] :
        ap \in {<<>>, <<2>>}}
    \cup {[multipleDiscountCodes |-> m] : m \in FixedMultiInputs}

NextFixed ==
    \/ Quiet /\ \E inp \in FixedCreateInputs : CreateBegin(inp)
    \/ \E s \in Slots : CreateRow(s)
    \/ \E s \in Slots : CreateUsage(s)
    \/ Quiet /\ \E id \in DOMAIN appts, inp \in FixedEditInputs :
            editAppointment(1, id, inp)

SpecFixed == Init /\ [][NextFixed]_vars

Min(a, b) == IF a <= b THEN a ELSE b

\* Row `apt` carries the discount `amount`, capped as the claim says.
ClaimedFixedApplied(apt, code, discountableAmount) ==
    /\ apt.discountAmount = Min(discountCodes[code].discountAmount, discountableAmount)
    /\ apt.finalPrice = apt.originalPrice - apt.discountAmount

\* C13. For a fixed_amount code applied by createAppointment, editAppointment
\* or applyMultipleDiscounts, discountAmount = min(code.discountAmount,
\* discountableAmount) and finalPrice = originalPrice - discountAmount.
C13_FixedAmountDiscount ==
    [][ /\ \A id \in DOMAIN appts' \ DOMAIN appts :
            (/\ appts'[id].discountCodeId # 0
             /\ discountCodes[appts'[id].discountCodeId].discountType = "fixed_amount")
            => ClaimedFixedApplied(appts'[id], appts'[id].discountCodeId,
                                   appts'[id].originalPrice)
        /\ \A id \in DOMAIN appts, inp \in FixedEditInputs :
            (/\ Given(inp, "discountCode")
             /\ discountCodes[inp.discountCode].discountType = "fixed_amount"
             /\ editAppointment(1, id, inp)
             /\ lastResp'.status = 200)
            => ClaimedFixedApplied(appts'[id], inp.discountCode,
                                   appts'[id].originalPrice)
        /\ \A id \in DOMAIN appts, inp \in FixedEditInputs :
            (/\ Has(inp, "multipleDiscountCodes")
             /\ editAppointment(1, id, inp)
             /\ lastResp'.status = 200)
            => ClaimedFixedApplied(appts'[id], inp.multipleDiscountCodes[1].code,
                    SumPrices(packages, FindPackages(packages,
                        inp.multipleDiscountCodes[1].appliedToPackages)
                        \cap ({appts'[id].packageId}
                              \cup Range(appts'[id].additionalPackages))))
      ]_vars

\* The batch `reqs` would pass applyMultipleDiscounts for the client if the
\* client had used none of its codes.
ValidButForUsage(reqs, clientId, packageId, additionalPackages) ==
    applyMultipleDiscounts({}, reqs, clientId, packageId, additionalPackages).ok

\* Appointment `id` carries code `code` as one of its multiple discounts.
MultiApplied(id, code) ==
    /\ lastResp'.status = 200
    /\ \E d \in apptDiscounts' : d.appointmentId = id /\ d.discountCodeId = code

\* C14. In the multi-code mode (multipleDiscountCodes in editAppointment or in
\* updateAppointmentStatus on completion) the single-use restriction does not
\* apply: a code the client already used on another appointment is accepted
\* and applied.
C14_MultiCodeReuseAccepted ==
    [][ /\ \A id \in DOMAIN appts, inp \in EditInputs :
            (/\ Has(inp, "multipleDiscountCodes")
             /\ Len(inp.multipleDiscountCodes) = 1
             /\ ~Has(inp, "clientId")
             /\ ValidButForUsage(inp.multipleDiscountCodes, appts[id].clientId,
                                 appts[id].packageId, appts[id].additionalPackages)
             /\ UsedElsewhere(inp.multipleDiscountCodes[1].code, appts[id].clientId, id)
             /\ editAppointment(1, id, inp))
            => MultiApplied(id, inp.multipleDiscountCodes[1].code)
        /\ \A id \in DOMAIN appts, inp \in UpdateInputs :
            (/\ Has(inp, "multipleDiscountCodes")
             /\ Len(inp.multipleDiscountCodes) = 1
             /\ ValidButForUsage(inp.multipleDiscountCodes, appts[id].clientId,
                                 appts[id].packageId, inp.additionalPackages)
             /\ UsedElsewhere(inp.multipleDiscountCodes[1].code, appts[id].clientId, id)
             /\ updateAppointmentStatus(2, id, inp))
            => MultiApplied(id, inp.multipleDiscountCodes[1].code)
      ]_vars

\* Appointment `id` has a discount: a legacy single code or multiple codes.
HasAnyDiscount(id) ==
    \/ appts[id].discountCodeId # 0
    \/ \E d \in apptDiscounts : d.appointmentId = id
    \/ \E u \in usages : u.appointmentId = id

\* C15. After a successful editAppointment with removeDiscount on an
\* appointment that had any discount, no DiscountCodeUsage row references the
\* appointment, its discountCodeId and discountAmount are null and its
\* finalPrice is its originalPrice, so that the client can apply the removed
\* code to another appointment.
C15_RemoveDiscountClearsLedger ==
    [][ \A id \in DOMAIN appts, inp \in EditInputs :
            (/\ Has(inp, "removeDiscount") /\ inp.removeDiscount
             /\ HasAnyDiscount(id)
             /\ editAppointment(1, id, inp)
             /\ lastResp'.status = 200)
            => /\ \A u \in usages' : u.appointmentId # id
               /\ appts'[id].discountCodeId = 0
               /\ appts'[id].discountAmount = 0
               /\ appts'[id].finalPrice = appts'[id].originalPrice
      ]_vars

\* The same for an appointment that carries a legacy single code with its usage
\* row.
C15_RemoveSingleCode ==
    [][ \A id \in DOMAIN appts, inp \in EditInputs :
            (/\ Has(inp, "removeDiscount") /\ inp.removeDiscount
             /\ appts[id].discountCodeId # 0
             /\ UsageRow(appts[id].discountCodeId, appts[id].clientId, id) \in usages
             /\ \A u \in usages : u.appointmentId = id
                    => u.discountCodeId = appts[id].discountCodeId
             /\ editAppointment(1, id, inp)
             /\ lastResp'.status = 200)
            => /\ \A u \in usages' : u.appointmentId # id
               /\ appts'[id].discountCodeId = 0
               /\ appts'[id].discountAmount = 0
               /\ appts'[id].finalPrice = appts'[id].originalPrice
               /\ ~UsageExists(usages', appts[id].discountCodeId, appts[id].clientId)
      ]_vars

\* The appointments the claim says a report over [startDate, endDate] counts.
ClaimedCounted(startDate, endDate) ==
    {id \in DOMAIN appts :
        /\ appts[id].status = "completed"
        /\ appts[id].finalPrice # NULL
        /\ IF appts[id].appointmentDate # 0
           THEN appts[id].appointmentDate \in startDate..endDate
           ELSE appts[id].createdAt \in startDate..endDate}

\* C16. getFinancialOverview with a date range counts an appointment in
\* revenue, commission and customer totals if and only if it is completed, its
\* finalPrice is not null, and its appointmentDate lies in the range or it has
\* no appointmentDate and its createdAt lies in the range; the per-barber and
\* per-service breakdowns count the same appointments.
C16_OverviewInclusionRule ==
    \A s \in Days, e \in Days :
        LET counted == ClaimedCounted(s, e)
            f == DateFilter(s, e)
            price == [id \in DOMAIN appts |-> ToNumber(appts[id].finalPrice)]
        IN  /\ OverviewRevenue(f) = SumOver(counted, price)
            /\ OverviewCommission(f) = ClaimedCommission(counted)
            /\ OverviewCustomers(f) = Cardinality({appts[id].clientId : id \in counted})
            /\ \A b \in {u \in DOMAIN users : FindActiveBarber(users, u)} :
                BarberSalesRevenue(b, f)
                    = SumOver({id \in counted : appts[id].barberId = b}, price)
            /\ \A pkg \in DOMAIN packages :
                ServiceCount(pkg, f)
                    = SumOver(counted, [id \in DOMAIN appts |-> ServiceOccurrences(id, pkg)])

\* A completed walk-in created on day 1 (no appointmentDate): the report of
\* day 1 counts it, the report of day 2 does not.
C16_Witness ==
    \E a \in DOMAIN appts :
        /\ appts[a].appointmentDate = 0 /\ appts[a].createdAt = 1
        /\ CompletedAppointments(DateFilter(1, 1)) = {a}
        /\ CompletedAppointments(DateFilter(2, 2)) = {}
        /\ OverviewRevenue(DateFilter(1, 1)) > 0
        /\ OverviewCustomers(DateFilter(1, 1)) = 1

\* A completed appointment created on day 1 and booked for day 2: the report of
\* day 2 counts it, the report of day 1 does not.
C16_BookedReached ==
    \E b \in DOMAIN appts :
        /\ appts[b].appointmentDate = 2 /\ appts[b].createdAt = 1
        /\ CompletedAppointments(DateFilter(1, 1)) = {}
        /\ CompletedAppointments(DateFilter(2, 2)) = {b}

\* Appointment `id` is priced as createAppointment prices it.
PricedAsCreated(id) ==
    /\ appts[id].originalPrice # NULL
    /\ appts[id].finalPrice = appts[id].originalPrice - appts[id].discountAmount

\* C17. In the per-service breakdown the revenue of a completed appointment is
\* attributed to each of its packages in proportion to the package's listed
\* price over the sum of the bundled listed prices, so the amounts attributed
\* for one appointment sum to its finalPrice.  Stated for the appointments whose
\* finalPrice is originalPrice less the discount.
C17_ProportionalServiceRevenue ==
    \A id \in CompletedAppointments(NoFilter) :
        PricedAsCreated(id) =>
            /\ \A pkg \in DOMAIN packages :
                ServiceRevenueOf(id, pkg) * TotalPackagePrice(id)
                    = appts[id].finalPrice * ServiceOccurrences(id, pkg)
                      * packages[pkg].price
            /\ SumOver(DOMAIN packages,
                       [pkg \in DOMAIN packages |-> ServiceRevenueOf(id, pkg)])
                    = appts[id].finalPrice

\* The same for the service breakdown of the staff report, whose amounts are
\* fractions over the sum of the listed prices.
C17_StaffReportProportional ==
    \A id \in CompletedAppointments(NoFilter) :
        TotalPackagePrice(id) > 0 =>
            /\ \A pkg \in DOMAIN packages :
                /\ StaffServiceRevenueOf(id, pkg).den = TotalPackagePrice(id)
                /\ StaffServiceRevenueOf(id, pkg).num
                        = appts[id].finalPrice * ServiceOccurrences(id, pkg)
                          * packages[pkg].price
            /\ SumOver(DOMAIN packages,
                       [pkg \in DOMAIN packages |-> StaffServiceRevenueOf(id, pkg).num])
                    = appts[id].finalPrice * TotalPackagePrice(id)

\* ------------------------------------------------------------ product sales
\* The product shop: sellProduct, updateProduct and updateCommissionRate.  A
\* ProductSale row carries quantity, unitPrice and totalPrice in cents, the
\* commissionRate in percent and the commissionAmount times 100 (cents times
\* percent), as the appointment commissions are held.
MaxSales == 2

StaffRoles == {"Boss", "Staff"}

\* targetStaffId: the acting user, or body.staffId when it names a Boss or Staff.
TargetStaff(actor, inp) ==
    IF Given(inp, "staffId") /\ RoleOf(users, inp.staffId) \in StaffRoles
    THEN inp.staffId
    ELSE actor

\* commission: body.commissionRate when truthy, else the staff member's
\* productCommissionRate, else 5.
SaleCommissionRate(staff, inp) ==
    IF Given(inp, "commissionRate") THEN inp.commissionRate
    ELSE IF users[staff].productCommissionRate = NULL THEN 5
    ELSE users[staff].productCommissionRate

SaleRow(staff, inp) ==
    LET qty == inp.quantity
        unitPrice == products[inp.productId].price
        totalPrice == qty * unitPrice
        commission == SaleCommissionRate(staff, inp)
    IN  [id |-> nextSaleId,
         productId |-> inp.productId,
         clientId |-> IF Given(inp, "clientId") THEN inp.clientId ELSE 0,
         staffId |-> staff,
         quantity |-> qty,
         unitPrice |-> unitPrice,
         totalPrice |-> totalPrice,
         commissionRate |-> commission,
         commissionAmount |-> totalPrice * commission,
         createdAt |-> now]

\* The handler's answer and the tables it leaves.
SellResult(actor, inp) ==
    LET refuse(status, error) ==
            [resp |-> Resp("sell", status, error, 0),
             sales |-> productSales, products |-> products]
    IN  IF RoleOf(users, actor) \notin StaffRoles
        THEN refuse(403, "Unauthorized")
        ELSE IF ~Given(inp, "productId") \/ ~Given(inp, "quantity")
        THEN refuse(400, "Missing required fields")
        ELSE IF inp.productId \notin DOMAIN products
        THEN refuse(404, "Product not found")
        ELSE IF ~products[inp.productId].isActive
        THEN refuse(400, "Product not available")
        ELSE IF /\ products[inp.productId].stock # NULL
                /\ products[inp.productId].stock > 0
                /\ products[inp.productId].stock < inp.quantity
        THEN refuse(400, "Insufficient stock")
        ELSE IF Given(inp, "clientId") /\ inp.clientId \notin clients
        THEN refuse(404, "Client not found")
        ELSE [resp |-> Resp("sell", 201, "", 0),
              sales |-> Append(productSales, SaleRow(TargetStaff(actor, inp), inp)),
              products |->
                IF products[inp.productId].stock = NULL THEN products
                ELSE [products EXCEPT ![inp.productId].stock = @ - inp.quantity]]

sellProduct(actor, inp) ==
    /\ ops < MaxOps
    /\ Len(productSales) < MaxSales
    /\ ops' = ops + 1
    /\ LET result == SellResult(actor, inp)
       IN  /\ productSales' = result.sales
           /\ products' = result.products
           /\ lastResp' = result.resp
           /\ nextSaleId' = IF result.resp.status = 201 THEN nextSaleId + 1
                            ELSE nextSaleId
    /\ UNCHANGED <<packages, users, clients, selling, editing, nextUserId, tokens,
                   discountCodes, appts, nextApptId, apptDiscounts, usages,
                   creating, now>>

\* updateProduct: Boss only; the fields of the body that are present are written.
updateProduct(actor, productId, inp) ==
    /\ ops < MaxOps
    /\ ops' = ops + 1
    /\ IF RoleOf(users, actor) # "Boss"
       THEN /\ lastResp' = Resp("updateProduct", 403, "Unauthorized", 0)
            /\ UNCHANGED products
       ELSE IF productId \notin DOMAIN products
       THEN /\ lastResp' = Resp("updateProduct", 404, "Product not found", 0)
            /\ UNCHANGED products
       ELSE /\ lastResp' = Resp("updateProduct", 200, "", 0)
            /\ products' = [products EXCEPT ![productId] =
                    [price |-> IF Has(inp, "price") THEN inp.price ELSE @.price,
                     stock |-> IF Has(inp, "stock") THEN inp.stock ELSE @.stock,
                     isActive |-> IF Has(inp, "isActive") THEN inp.isActive
                                  ELSE @.isActive]]
    /\ UNCHANGED <<packages, users, productSales, clients,
                   selling, nextSaleId, editing, nextUserId, tokens, discountCodes, appts,
                   nextApptId, apptDiscounts, usages, creating, now>>

ValidRate(inp, f) == Has(inp, f) => (inp[f] >= 0 /\ inp[f] <= 100)

\* updateCommissionRate: Boss only; rates outside 0..100 are refused; the update
\* of a user that is not Boss or Staff finds no record and answers 500.
updateCommissionRate(actor, staffId, inp) ==
    /\ ops < MaxOps
    /\ ops' = ops + 1
    /\ IF RoleOf(users, actor) # "Boss"
       THEN /\ lastResp' = Resp("updateCommissionRate", 403, "", 0)
            /\ UNCHANGED users
       ELSE IF ~ValidRate(inp, "commissionRate")
                \/ ~ValidRate(inp, "productCommissionRate")
       THEN /\ lastResp' = Resp("updateCommissionRate", 400, "", 0)
            /\ UNCHANGED users
       ELSE IF RoleOf(users, staffId) \notin StaffRoles
       THEN /\ lastResp' = Resp("updateCommissionRate", 500, "", 0)
            /\ UNCHANGED users
       ELSE /\ lastResp' = Resp("updateCommissionRate", 200, "", 0)
            /\ users' = [users EXCEPT ![staffId] =
                    [@ EXCEPT !.commissionRate =
                                IF Has(inp, "commissionRate")
                                THEN inp.commissionRate ELSE @,
                              !.productCommissionRate =
                                IF Has(inp, "productCommissionRate")
                                THEN inp.productCommissionRate ELSE @]]
    /\ UNCHANGED <<packages, products, productSales, clients,
                   selling, nextSaleId, editing, nextUserId, tokens, discountCodes,
                   appts, nextApptId, apptDiscounts, usages, creating, now>>

\* A product commission recomputed from the staff member's present rate.
SaleCommissionAtCurrentRate(sale) ==
    sale.totalPrice * users[sale.staffId].productCommissionRate

\* The product commission a report draws from one sale: the reports add
\* (sale.commissionAmount || 0).
SaleCommission(sale) == sale.commissionAmount

\* getBarberPerformance: productCommissionByStaff.
ProductCommissionByStaff(staff) ==
    LET mine == {i \in DOMAIN productSales : productSales[i].staffId = staff}
    IN  SumOver(mine, [i \in mine |-> SaleCommission(productSales[i])])

\* getFinancialOverview: productSalesCommission.
ProductSalesCommission ==
    SumOver(DOMAIN productSales,
            [i \in DOMAIN productSales |-> SaleCommission(productSales[i])])

SellInputs ==
    {[productId |-> p, quantity |-> q] : p \in {1, 2, 3}, q \in {0, 1, 2}}
    \cup {[productId |-> 1, quantity |-> 1, clientId |-> c] : c \in {1, 5}}
    \cup {[productId |-> 1, quantity |-> 1, commissionRate |-> r, staffId |-> t] :
                r \in {0, 10}, t \in {1, 3}}

ProductInputs ==
    {[price |-> 2500], [stock |-> 5], [isActive |-> FALSE],
     [price |-> 1000, stock |-> NULL]}

RateInputs ==
    {[productCommissionRate |-> 20], [commissionRate |-> 50],
     [commissionRate |-> 30, productCommissionRate |-> 0],
     [productCommissionRate |-> 150], [commissionRate |-> 0 - 1]}

\* Acting user ids that no longer resolve.
GoneUsers == {9}

NextSales ==
    \/ \E actor \in UserIds \cup GoneUsers, inp \in SellInputs : sellProduct(actor, inp)
    \/ \E actor \in {1, 2}, p \in {1, 3}, inp \in ProductInputs :
            updateProduct(actor, p, inp)
    \/ \E actor \in {1, 2}, staff \in {1, 2, 3}, inp \in RateInputs :
            updateCommissionRate(actor, staff, inp)

SpecSales == Init /\ [][NextSales]_vars

\* C18. Every ProductSale row has totalPrice = quantity x unitPrice and
\* commissionAmount = totalPrice x commissionRate / 100; a row written by
\* sellProduct takes its unitPrice from the product's price at the sale; and no
\* later step (updateCommissionRate on the staff member, a product price change,
\* another sale) changes a stored row or the product commission the reports
\* draw from it.
C18_SaleCommissionFrozen ==
    [][/\ \A i \in DOMAIN productSales :
            /\ i \in DOMAIN productSales'
            /\ productSales'[i] = productSales[i]
            /\ SaleCommission(productSales[i])' = SaleCommission(productSales[i])
            /\ SaleCommission(productSales[i])
                    = productSales[i].totalPrice * productSales[i].commissionRate
       /\ \A i \in DOMAIN productSales' \ DOMAIN productSales :
            /\ productSales'[i].unitPrice = products[productSales'[i].productId].price
            /\ productSales'[i].totalPrice
                    = productSales'[i].quantity * productSales'[i].unitPrice
            /\ productSales'[i].commissionAmount
                    = productSales'[i].totalPrice * productSales'[i].commissionRate
            /\ SaleCommission(productSales[i])' = productSales'[i].commissionAmount
       /\ (productSales' = productSales) =>
            \A staff \in DOMAIN users :
                ProductCommissionByStaff(staff)' = ProductCommissionByStaff(staff)
      ]_vars

\* A sale made at the staff member's rate of 5 percent and the price of 20.00,
\* after which both the staff member's rate and the product's price were changed.
C18_Witness ==
    \E i \in DOMAIN productSales :
        /\ productSales[i].commissionRate = 5
        /\ productSales[i].unitPrice = 2000
        /\ productSales[i].commissionAmount = productSales[i].quantity * 2000 * 5
        /\ users[productSales[i].staffId].productCommissionRate # 5
        /\ products[productSales[i].productId].price # 2000

\* ------------------------------------------------------------ package prices
\* updatePackage: Boss only; a body without any truthy field is refused; the
\* price is written when body.price is truthy.  Only the package row is written.
PackageUpdateGiven(inp) == Given(inp, "name") \/ Given(inp, "price")

updatePackage(actor, packageId, inp) ==
    /\ ops < MaxOps
    /\ ops' = ops + 1
    /\ IF RoleOf(users, actor) # "Boss"
       THEN /\ lastResp' = Resp("updatePackage", 403, "Unauthorized", 0)
            /\ UNCHANGED packages
       ELSE IF ~PackageUpdateGiven(inp)
       THEN /\ lastResp' = Resp("updatePackage", 400, "No update data provided", 0)
            /\ UNCHANGED packages
       ELSE IF packageId \notin DOMAIN packages
       THEN /\ lastResp' = Resp("updatePackage", 404, "Package not found", 0)
            /\ UNCHANGED packages
       ELSE /\ lastResp' = Resp("updatePackage", 200, "", 0)
            /\ packages' = [packages EXCEPT ![packageId].price =
                                IF Given(inp, "price") THEN inp.price ELSE @]
    /\ UNCHANGED <<users, products, productSales, clients,
                   selling, nextSaleId, editing, nextUserId, tokens, discountCodes, appts,
                   nextApptId, apptDiscounts, usages, creating, now>>

PackageInputs == {[price |-> 6000], [price |-> 2000, name |-> 1], [name |-> 1],
                  [price |-> 0], <<>>}

PriceCreateInputs ==
    [clientId : {1}, packageId : {1}, barberId : {2},
     additionalPackages : {<<>>, <<2>>}, appointmentDate : {0}, discountCode : {0, 1}]

PriceUpdateInputs == {[status |-> "completed"], [status |-> "confirmed"]}

PriceEditInputs ==
    {<<>>, [packageId |-> 2], [additionalPackages |-> <<>>],
     [additionalPackages |-> <<1, 2>>],
     [discountCode |-> 1,
      discountAppliedTo |-> [basePackage |-> TRUE, additionalPackages |-> <<>>]]}

NextPrices ==
    \/ Quiet /\ \E inp \in PriceCreateInputs : CreateBegin(inp)
    \/ \E s \in Slots : CreateRow(s)
    \/ \E s \in Slots : CreateUsage(s)
    \/ Quiet /\ \E id \in DOMAIN appts, inp \in PriceUpdateInputs :
            updateAppointmentStatus(1, id, inp)
    \/ Quiet /\ \E actor \in {1, 2}, pkg \in {1, 2, 3}, inp \in PackageInputs :
            updatePackage(actor, pkg, inp)
    \/ Quiet /\ \E id \in DOMAIN appts, inp \in PriceEditInputs :
            editAppointment(1, id, inp)

SpecPrices == Init /\ [][NextPrices]_vars

\* The commission the reports attribute to one completed appointment.
AppointmentCommission(id) ==
    IF appts[id].barberId # 0
    THEN PriceForCommission(appts[id]) * users[appts[id].barberId].commissionRate
    ELSE 0

\* C19. A step that changes a package price (updatePackage) leaves every
\* appointment row as it was, and leaves what the reports attribute to each
\* completed appointment as it was: its revenue (finalPrice), its commission,
\* and the revenue the service breakdown attributes to each of its packages.
C19_PriceChangeNotRetroactive ==
    [][packages' # packages =>
        /\ appts' = appts
        /\ \A id \in CompletedAppointments(NoFilter) :
            /\ id \in CompletedAppointments(NoFilter)'
            /\ AppointmentCommission(id)' = AppointmentCommission(id)
            /\ \A pkg \in DOMAIN packages :
                ServiceRevenueOf(id, pkg)' = ServiceRevenueOf(id, pkg)
      ]_vars

\* The part of C19 about the stored rows and the totals read from them: a package
\* price change leaves the appointment rows, the overview's revenue and
\* commission, and each barber's revenue and commission as they were.
C19_StoredPricesKept ==
    [][packages' # packages =>
        /\ appts' = appts
        /\ \A f \in ReportFilters :
            /\ OverviewRevenue(f)' = OverviewRevenue(f)
            /\ OverviewCommission(f)' = OverviewCommission(f)
            /\ \A b \in {1, 2} :
                /\ BarberSalesRevenue(b, f)' = BarberSalesRevenue(b, f)
                /\ BarberServiceCommission(b, f)' = BarberServiceCommission(b, f)
      ]_vars

\* ------------------------------------------------------------ deleteAppointment
\* The route runs authenticateToken first, so req.user is always set and the
\* handler's 401 branch is not taken.  The tables DiscountCodeUsage and
\* AppointmentDiscount are not in the migration that the repository carries, so
\* what their foreign key on appointmentId does when the appointment row is
\* deleted is one of the three referential actions, chosen per request.
ReferentialActions == {"Cascade", "SetNull", "Restrict"}

\* A guard that lets every Boss and Staff user delete.
MayDeleteStaffToo(actor) == RoleOf(users, actor) \in StaffRoles

\* currentUser?.role !== 'Boss' answers 403.
MayDelete(actor) == RoleOf(users, actor) = "Boss"

Referencing(id) ==
    (\E u \in usages : u.appointmentId = id)
    \/ (\E d \in apptDiscounts : d.appointmentId = id)

Without(A, id) == [i \in DOMAIN A \ {id} |-> A[i]]

\* prisma.appointment.delete under the referential action `fk`.
DeleteRow(id, fk) ==
    IF fk = "Restrict" /\ Referencing(id)
    THEN [resp |-> Resp("delete", 500, "Failed to delete appointment", id),
          appts |-> appts, usages |-> usages, apptDiscounts |-> apptDiscounts]
    ELSE [resp |-> Resp("delete", 200, "", id),
          appts |-> Without(appts, id),
          usages |->
            IF fk = "Cascade" THEN {u \in usages : u.appointmentId # id}
            ELSE {IF u.appointmentId = id THEN [u EXCEPT !.appointmentId = 0]
                  ELSE u : u \in usages},
          apptDiscounts |->
            IF fk = "Cascade" THEN {d \in apptDiscounts : d.appointmentId # id}
            ELSE {IF d.appointmentId = id THEN [d EXCEPT !.appointmentId = 0]
                  ELSE d : d \in apptDiscounts}]

DeleteResult(actor, id, fk) ==
    IF ~MayDelete(actor)
    THEN [resp |-> Resp("delete", 403, "Permission denied", id),
          appts |-> appts, usages |-> usages, apptDiscounts |-> apptDiscounts]
    ELSE IF id \notin DOMAIN appts
    THEN [resp |-> Resp("delete", 404, "Appointment not found", id),
          appts |-> appts, usages |-> usages, apptDiscounts |-> apptDiscounts]
    ELSE DeleteRow(id, fk)

deleteAppointment(actor, id) ==
    /\ ops < MaxOps
    /\ ops' = ops + 1
    /\ \E fk \in ReferentialActions :
        LET result == DeleteResult(actor, id, fk)
        IN  /\ appts' = result.appts
            /\ usages' = result.usages
            /\ apptDiscounts' = result.apptDiscounts
            /\ lastResp' = result.resp
    /\ UNCHANGED <<packages, users, products, productSales, clients,
                   selling, nextSaleId, editing, nextUserId, tokens,
                   discountCodes, nextApptId, creating, now>>

DeleteCreateInputs ==
    [clientId : {1}, packageId : {1}, barberId : {0, 2},
     additionalPackages : {<<2>>}, appointmentDate : {0}, discountCode : {0, 1}]

DeleteUpdateInputs ==
    {[status |-> "completed"],
     [status |-> "completed", additionalPackages |-> <<2>>,
      multipleDiscountCodes |-> <<[code |-> 2, appliedToPackages |-> <<2>>]>>]}

Actors == UserIds \cup GoneUsers

RequestedIds == 1..(MaxAppts + 1)

NextDelete ==
    \/ Quiet /\ \E inp \in DeleteCreateInputs : CreateBegin(inp)
    \/ \E s \in Slots : CreateRow(s)
    \/ \E s \in Slots : CreateUsage(s)
    \/ Quiet /\ \E id \in DOMAIN appts, inp \in DeleteUpdateInputs :
            updateAppointmentStatus(1, id, inp)
    \/ Quiet /\ \E actor \in Actors, id \in RequestedIds :
            deleteAppointment(actor, id)

SpecDelete == Init /\ [][NextDelete]_vars

\* C20. A deleteAppointment request of an acting user whose role is not Boss
\* (Staff, Client, or a user id that does not resolve) is answered 403
\* 'Permission denied' and leaves every table as it was; a deleteAppointment
\* request that removes an appointment row comes from a Boss.
C20_DeleteBossOnly ==
    [][\A actor \in Actors, id \in RequestedIds :
        deleteAppointment(actor, id) =>
            /\ RoleOf(users, actor) # "Boss" =>
                /\ lastResp'.status = 403
                /\ lastResp'.error = "Permission denied"
                /\ UNCHANGED <<packages, users, products, productSales, clients,
                   selling, nextSaleId, editing, nextUserId, tokens,
                               discountCodes, appts, nextApptId, apptDiscounts,
                               usages, creating, now>>
            /\ appts' # appts =>
                /\ RoleOf(users, actor) = "Boss"
                /\ DOMAIN appts' = DOMAIN appts \ {id}
      ]_vars

\* A delete request refused with 403 while the appointment it names, with its
\* usage row, is on file.
C20_Witness ==
    /\ lastResp.op = "delete"
    /\ lastResp.status = 403
    /\ lastResp.appt \in DOMAIN appts
    /\ \E u \in usages : u.appointmentId = lastResp.appt

\* A delete request of the Boss that removed the appointment.
C20_RemovedReached ==
    /\ lastResp.op = "delete"
    /\ lastResp.status = 200
    /\ lastResp.appt \notin DOMAIN appts
    /\ nextApptId > lastResp.appt

\* ------------------------------------------------------------ barber reassignment
\* Requests that carry barberId: a barber, null, with and without a status.
BarberUpdateInputs ==
    {[barberId |-> b] : b \in {0, 2}}
    \cup {[status |-> st, barberId |-> b] : st \in {"completed", "confirmed"}, b \in {0, 1}}

BarberEditInputs == {[barberId |-> b] : b \in {0, 1, 2}}

IsStaffUser(actor) == actor \in DOMAIN users /\ users[actor].role \in {"Boss", "Staff"}

ShortPassword == <<1, 2, 3>>

WrongPassword == <<6, 5, 4, 3, 2, 1>>

FindByEmail(email) == {u \in DOMAIN users : users[u].email = email}

\* A field of the token's payload, undefined (NULL) when the payload lacks it.
Claim(tok, f) == IF f \in DOMAIN tok THEN tok[f] ELSE NULL

NewUser(role, isActive, inp) ==
    [role |-> role, isActive |-> isActive, commissionRate |-> 40,
     productCommissionRate |-> 5, email |-> inp.email, password |-> inp.password]

SignToken(id, user) == [userId |-> id, role |-> user.role]

\* register: the account is always created as Staff and inactive, and no token
\* is issued.
register(inp) ==
    /\ ops < MaxOps
    /\ ops' = ops + 1
    /\ LET refuse(status, error) ==
                /\ lastResp' = Resp("register", status, error, 0)
                /\ UNCHANGED <<users, nextUserId>>
       IN  IF ~Given(inp, "name") \/ ~Given(inp, "email") \/ ~Has(inp, "password")
           THEN refuse(400, "Missing required fields")
           ELSE IF Has(inp, "role") /\ inp.role \notin {"Boss", "Staff"}
           THEN refuse(400, "Invalid role")
           ELSE IF inp.email < 0
           THEN refuse(400, "Invalid email format")
           ELSE IF Len(inp.password) < 6
           THEN refuse(400, "Password too short")
           ELSE IF FindByEmail(inp.email) # {}
           THEN refuse(409, "User already exists")
           ELSE /\ users' = Put(users, nextUserId, NewUser("Staff", FALSE, inp))
                /\ nextUserId' = nextUserId + 1
                /\ lastResp' = Resp("register", 201, "", nextUserId)
    /\ UNCHANGED <<packages, products, productSales, clients,
                   selling, nextSaleId, editing,
                   discountCodes, appts,
                   nextApptId, apptDiscounts, usages, creating, now, tokens>>

\* registerBoss: the account is created as Boss and active, with a token.
registerBoss(inp) ==
    /\ ops < MaxOps
    /\ ops' = ops + 1
    /\ LET refuse(status, error) ==
                /\ lastResp' = Resp("registerBoss", status, error, 0)
                /\ UNCHANGED <<users, nextUserId, tokens>>
       IN  IF ~Given(inp, "name") \/ ~Given(inp, "email") \/ ~Has(inp, "password")
           THEN refuse(400, "Missing required fields")
           ELSE IF Len(inp.password) < 6
           THEN refuse(400, "Invalid password")
           ELSE IF FindByEmail(inp.email) # {}
           THEN refuse(409, "User already exists")
           ELSE /\ users' = Put(users, nextUserId, NewUser("Boss", TRUE, inp))
                /\ nextUserId' = nextUserId + 1
                /\ tokens' = tokens \cup
                        {SignToken(nextUserId, NewUser("Boss", TRUE, inp))}
                /\ lastResp' = Resp("registerBoss", 201, "", nextUserId)
    /\ UNCHANGED <<packages, products, productSales, clients,
                   selling, nextSaleId, editing,
                   discountCodes, appts,
                   nextApptId, apptDiscounts, usages, creating, now>>

\* A login that does not look at the activation flag.
AccountActiveAlways(user) == TRUE

\* login: `if (!user.isActive)` answers 403.
AccountActive(user) == user.isActive

login(inp) ==
    /\ ops < MaxOps
    /\ ops' = ops + 1
    /\ LET refuse(status, error) ==
                /\ lastResp' = Resp("login", status, error, 0)
                /\ UNCHANGED tokens
           found == FindByEmail(inp.email)
           id == CHOOSE u \in found : TRUE
       IN  IF ~Given(inp, "email") \/ ~Has(inp, "password")
           THEN refuse(400, "Missing required fields")
           ELSE IF found = {}
           THEN refuse(404, "Email not registered")
           ELSE IF users[id].password # inp.password
           THEN refuse(401, "Wrong password")
           ELSE IF ~AccountActive(users[id])
           THEN refuse(403, "Account not activated")
           ELSE /\ tokens' = tokens \cup {SignToken(id, users[id])}
                /\ lastResp' = Resp("login", 200, "", id)
    /\ UNCHANGED <<packages, users, products, productSales, clients,
                   selling, nextSaleId, editing,
                   discountCodes,
                   appts, nextApptId, apptDiscounts, usages, creating, now,
                   nextUserId>>

\* toggleUserStatus: the token's role must be Boss; a user cannot toggle their
\* own account.
toggleUserStatus(tok, userId) ==
    /\ ops < MaxOps
    /\ ops' = ops + 1
    /\ IF Claim(tok, "role") # "Boss"
       THEN /\ lastResp' = Resp("toggleUserStatus", 403, "Access denied", userId)
            /\ UNCHANGED users
       ELSE IF userId \notin DOMAIN users
       THEN /\ lastResp' = Resp("toggleUserStatus", 404, "User not found", userId)
            /\ UNCHANGED users
       ELSE IF userId = Claim(tok, "userId")
       THEN /\ lastResp' = Resp("toggleUserStatus", 400, "Invalid operation", userId)
            /\ UNCHANGED users
       ELSE /\ users' = [users EXCEPT ![userId].isActive = ~@]
            /\ lastResp' = Resp("toggleUserStatus", 200, "", userId)
    /\ UNCHANGED <<packages, products, productSales, clients,
                   selling, nextSaleId, editing,
                   discountCodes, appts,
                   nextApptId, apptDiscounts, usages, creating, now, tokens,
                   nextUserId>>

RegisterInputs ==
    {[name |-> 1, email |-> e, password |-> p] : e \in {1, 4, 0 - 1},
                                                 p \in {GoodPassword, ShortPassword}}
    \cup {[name |-> 1, email |-> 4, password |-> GoodPassword, role |-> r] :
                r \in {"Boss", "Admin"}}
    \cup {[name |-> 1, password |-> GoodPassword]}

LoginInputs ==
    {[email |-> e, password |-> p] : e \in {1, 2, 4, 5},
                                     p \in {GoodPassword, WrongPassword}}
    \cup {[email |-> 0, password |-> GoodPassword]}

NextAccounts ==
    \/ \E inp \in RegisterInputs : register(inp)
    \/ \E inp \in RegisterInputs : registerBoss(inp)
    \/ \E inp \in LoginInputs : login(inp)
    \/ \E tok \in tokens, u \in 1..5 : toggleUserStatus(tok, u)

SpecAccounts == Init /\ [][NextAccounts]_vars

\* C22. Over register, registerBoss, login and toggleUserStatus: a step issues a
\* token only for an account that is active after the step; register creates the
\* account as Staff and inactive and issues no token; registerBoss creates it as
\* Boss and active; and the activation flag of an account changes only in a
\* toggleUserStatus request borne by a token of a Boss account.  So login issues
\* no token for a registered staff account before a Boss has activated it, nor
\* after a Boss has deactivated it.
C22_InactiveUntilBossActivates ==
    [][/\ \A t \in tokens' \ tokens :
            /\ t.userId \in DOMAIN users'
            /\ users'[t.userId].isActive
            /\ t.userId \in DOMAIN users => users[t.userId].isActive
       /\ \A u \in DOMAIN users' \ DOMAIN users :
            /\ lastResp'.op \in {"register", "registerBoss"}
            /\ lastResp'.op = "register" =>
                /\ users'[u].role = "Staff"
                /\ ~users'[u].isActive
                /\ tokens' = tokens
            /\ lastResp'.op = "registerBoss" =>
                /\ users'[u].role = "Boss"
                /\ users'[u].isActive
       /\ \A u \in DOMAIN users :
            /\ u \in DOMAIN users'
            /\ users'[u].isActive # users[u].isActive =>
                \E tok \in tokens :
                    /\ toggleUserStatus(tok, u)
                    /\ tok.userId \in DOMAIN users
                    /\ users[tok.userId].role = "Boss"
      ]_vars

\* A staff account created by register that a Boss activated and that then
\* logged in.
C22_Witness ==
    \E t \in tokens :
        /\ t.userId >= 4
        /\ t.role = "Staff"
        /\ users[t.userId].isActive
        /\ lastResp.op = "login"
        /\ lastResp.status = 200

\* A login of a registered staff account refused as not activated.
C22_RefusedReached ==
    /\ lastResp.op = "login"
    /\ lastResp.status = 403
    /\ \E u \in DOMAIN users : u >= 4 /\ users[u].role = "Staff" /\ ~users[u].isActive

\* ------------------------------------------------------------ editAppointment, step by step
\* editAppointment issues its statements one by one on the global connection:
\* the reads and the validation, the writes to DiscountCodeUsage and
\* AppointmentDiscount, and last prisma.appointment.update.  Other requests run
\* between its awaits.  EditBegin is the handler up to the ledger writes,
\* EditCommit the appointment.update and the response.
EditIdle == [pc |-> "idle"]

EditBegin(actor, id, inp) ==
    /\ ops < MaxOps
    /\ editing.pc = "idle"
    /\ ops' = ops + 1
    /\ LET r == EditResult(appts, apptDiscounts, usages, actor, id, inp)
       IN  /\ apptDiscounts' = r.apptDiscounts
           /\ usages' = r.usages
           /\ IF r.resp.status = 200
              THEN /\ editing' = [pc |-> "update", id |-> id, existing |-> appts[id],
                                  row |-> r.appts[id], usages |-> usages,
                                  apptDiscounts |-> apptDiscounts]
                   /\ UNCHANGED lastResp
              ELSE /\ lastResp' = r.resp
                   /\ UNCHANGED editing
    /\ UNCHANGED <<packages, users, products, productSales, clients,
                   selling, nextSaleId, discountCodes,
                   appts, nextApptId, creating, now, tokens, nextUserId>>

\* prisma.appointment.update: the columns of the data object are written; the
\* update of a row that is gone throws and the handler answers 500.
EditCommit ==
    /\ editing.pc = "update"
    /\ IF editing.id \in DOMAIN appts
       THEN /\ appts' = [appts EXCEPT ![editing.id] =
                    [@ EXCEPT !.clientId = editing.row.clientId,
                              !.packageId = editing.row.packageId,
                              !.barberId = editing.row.barberId,
                              !.additionalPackages = editing.row.additionalPackages,
                              !.originalPrice = editing.row.originalPrice,
                              !.finalPrice = editing.row.finalPrice,
                              !.discountCodeId = editing.row.discountCodeId,
                              !.discountAmount = editing.row.discountAmount]]
            /\ lastResp' = Resp("edit", 200, "", editing.id)
       ELSE /\ UNCHANGED appts
            /\ lastResp' = Resp("edit", 500, "Failed to update appointment", editing.id)
    /\ editing' = EditIdle
    /\ UNCHANGED <<packages, users, products, productSales, clients,
                   selling, nextSaleId, discountCodes,
                   nextApptId, apptDiscounts, usages, creating, now, ops, tokens,
                   nextUserId>>

StepCreateInputs ==
    [clientId : {1}, packageId : {1}, barberId : {0},
     additionalPackages : {<<2>>}, appointmentDate : {0}, discountCode : {0, 1}]

StepEditInputs ==
    {<<>>, [removeDiscount |-> TRUE], [discountCode |-> 2],
     [discountCode |-> 1, discountAppliedTo |-> [basePackage |-> TRUE,
                                                  additionalPackages |-> <<2>>]],
     [multipleDiscountCodes |-> <<[code |-> 2, appliedToPackages |-> <<2>>]>>]}

NextEdit ==
    \/ Quiet /\ editing.pc = "idle" /\ \E inp \in StepCreateInputs : CreateBegin(inp)
    \/ \E s \in Slots : CreateRow(s)
    \/ \E s \in Slots : CreateUsage(s)
    \/ Quiet /\ \E actor \in {1, 3}, id \in RequestedIds, inp \in StepEditInputs :
            id \in DOMAIN appts /\ EditBegin(actor, id, inp)
    \/ EditCommit
    \/ Quiet /\ \E id \in DOMAIN appts : deleteAppointment(1, id)

SpecEdit == Init /\ [][NextEdit]_vars

LedgerOf(U, D, id) ==
    [usages |-> {u \in U : u.appointmentId = id},
     apptDiscounts |-> {d \in D : d.appointmentId = id}]

PriceFields(row) ==
    <<row.discountCodeId, row.discountAmount, row.finalPrice>>

\* C23. While an editAppointment request is between its steps, the rows of
\* DiscountCodeUsage and AppointmentDiscount that reference the appointment are
\* not already those of the new discount while the appointment row still
\* carries the discountCodeId, discountAmount and finalPrice it had before the
\* request.
C23_EditAtomic ==
    (editing.pc = "update" /\ editing.id \in DOMAIN appts) =>
        ~ /\ LedgerOf(usages, apptDiscounts, editing.id)
                # LedgerOf(editing.usages, editing.apptDiscounts, editing.id)
          /\ PriceFields(appts[editing.id]) = PriceFields(editing.existing)
          /\ PriceFields(editing.row) # PriceFields(editing.existing)

\* The appointment.update of an edit failed after the edit had removed the
\* appointment's usage row: the request is answered 500 and the ledger is as
\* the edit left it.
C23_FailedAfterLedgerChange ==
    /\ lastResp.op = "edit"
    /\ lastResp.status = 500
    /\ editing.pc = "idle"

\* ------------------------------------------------------------ refused requests
\* Requests that name missing clients, packages, barbers, appointments and
\* codes, beside requests that are served.
ErrorCreateInputs ==
    [clientId : {1, 9}, packageId : {1, 9}, barberId : {0, 3},
     additionalPackages : {<<2>>, <<9>>, <<2, 2>>}, appointmentDate : {0},
     discountCode : {0, 1, 3}]

ErrorUpdateInputs ==
    {[status |-> "done"], [status |-> "completed", additionalPackages |-> <<9>>],
     [barberId |-> 2], [barberId |-> 3],
     [status |-> "completed", additionalPackages |-> <<2>>,
      multipleDiscountCodes |-> <<[code |-> 3, appliedToPackages |-> <<1>>]>>]}

ErrorEditInputs ==
    {[clientId |-> 9], [packageId |-> 9], [barberId |-> 3],
     [additionalPackages |-> <<9>>], [additionalPackages |-> <<2, 2>>],
     [additionalPackages |-> <<1, 2>>], [discountCode |-> 3], [discountCode |-> 2],
     [additionalPackages |-> <<>>, discountCode |-> 2],
     [multipleDiscountCodes |-> <<[code |-> 3, appliedToPackages |-> <<1>>]>>],
     [multipleDiscountCodes |-> <<[code |-> 2, appliedToPackages |-> <<2>>]>>]}

NextErrors ==
    \/ Quiet /\ \E inp \in ErrorCreateInputs : CreateBegin(inp)
    \/ \E s \in Slots : CreateRow(s)
    \/ \E s \in Slots : CreateUsage(s)
    \/ Quiet /\ \E actor \in {1, 3}, id \in RequestedIds, inp \in ErrorUpdateInputs :
            updateAppointmentStatus(actor, id, inp)
    \/ Quiet /\ \E actor \in {1, 3}, id \in RequestedIds, inp \in ErrorEditInputs :
            editAppointment(actor, id, inp)

SpecErrors == Init /\ [][NextErrors]_vars

\* The step serves a request of one of the handlers in `handlers` and the
\* response on file after it is a validation, not-found, conflict or permission
\* error (4xx).
RefusedBy(handlers) ==
    /\ ops' = ops + 1
    /\ lastResp'.op \in handlers
    /\ lastResp'.status >= 400
    /\ lastResp'.status <= 499

\* C24. A createAppointment, editAppointment or updateAppointmentStatus request
\* that is answered with a 4xx error leaves the Appointment, AppointmentDiscount
\* and DiscountCodeUsage tables as they were.
C24_ErrorsWriteNothing ==
    [][RefusedBy({"create", "update", "edit"}) =>
            UNCHANGED <<appts, apptDiscounts, usages>>]_vars

\* The same for createAppointment and updateAppointmentStatus alone.
C24_CreateAndUpdateErrors ==
    [][RefusedBy({"create", "update"}) =>
            UNCHANGED <<appts, apptDiscounts, usages>>]_vars

\* ------------------------------------------------------------ additional packages
AllResolve(list) == \A i \in DOMAIN list : list[i] \in DOMAIN packages

PackageNotFound(resp) ==
    resp.status = 404 /\ resp.error = "Some additional packages not found"

\* The request passes the checks that createAppointment makes before it looks
\* at the additional packages.
EntitiesResolve(inp) ==
    /\ inp.clientId \in clients
    /\ inp.packageId \in DOMAIN packages
    /\ inp.barberId # 0 => FindActiveBarber(users, inp.barberId)

\* What C25 says of a step: a createAppointment request whose client, package
\* and barber resolve, and an editAppointment request of the Boss that changes
\* the additional packages only, with a list of additional packages among
\* `lists`.
PackageNotFoundExactly(lists) ==
    /\ \A inp \in ErrorCreateInputs :
        (inp.additionalPackages \in lists /\ EntitiesResolve(inp) /\ CreateBegin(inp)) =>
            IF AllResolve(inp.additionalPackages)
            THEN /\ creating' # creating \/ ~PackageNotFound(lastResp')
                 /\ inp.discountCode = 0 => creating' # creating
            ELSE /\ PackageNotFound(lastResp')
                 /\ UNCHANGED <<appts, apptDiscounts, usages, creating>>
    /\ \A id \in DOMAIN appts, inp \in ErrorEditInputs :
        (/\ DOMAIN inp = {"additionalPackages"}
         /\ inp.additionalPackages \in lists
         /\ editAppointment(1, id, inp)) =>
            IF AllResolve(inp.additionalPackages)
            THEN /\ lastResp'.status = 200
                 /\ appts'[id].additionalPackages = inp.additionalPackages
            ELSE /\ PackageNotFound(lastResp')
                 /\ UNCHANGED <<appts, apptDiscounts, usages>>

\* C25. A createAppointment or editAppointment request is answered
\* PackageNotFound, and writes nothing, exactly when some id of its list of
\* additional packages names no package; a request whose ids all resolve, a
\* list naming one package twice included, is not answered PackageNotFound, and
\* is accepted when it carries no discount.
C25_PackageNotFoundExactly ==
    [][PackageNotFoundExactly({<<2>>, <<9>>, <<2, 2>>, <<1, 2>>})]_vars

\* The part of C25 for lists that name no package twice.
C25_DistinctIds ==
    [][PackageNotFoundExactly({<<2>>, <<9>>, <<1, 2>>})]_vars

\* ------------------------------------------------------------ originalPrice
\* The price C26 names: the listed price of the base package plus the listed
\* price of each entry of the list of additional packages.
ClaimedOriginalPrice(row) ==
    packages[row.packageId].price
    + SumOver(DOMAIN row.additionalPackages,
              [i \in DOMAIN row.additionalPackages |->
                    packages[row.additionalPackages[i]].price])

\* C26. The row that createAppointment inserts, and the row that a successful
\* editAppointment leaves, has originalPrice = the present price of its base
\* package plus the present prices of its additional packages, whatever
\* discount it carries and whatever the prices were before.
C26_OriginalPriceIsListedSum ==
    [][/\ \A id \in DOMAIN appts' \ DOMAIN appts :
            appts'[id].originalPrice = ClaimedOriginalPrice(appts'[id])
       /\ \A id \in DOMAIN appts, inp \in PriceEditInputs :
            (editAppointment(1, id, inp) /\ lastResp'.status = 200) =>
                /\ appts'[id].originalPrice = ClaimedOriginalPrice(appts'[id])
                /\ appts'[id].additionalPackages =
                        IF Has(inp, "additionalPackages") THEN inp.additionalPackages
                        ELSE appts[id].additionalPackages
      ]_vars

\* An appointment created with a discount at 80.00 and edited after the price of
\* its base package had been changed: its originalPrice follows the new price.
C26_Witness ==
    /\ lastResp.op = "edit"
    /\ lastResp.status = 200
    /\ packages[1].price # 5000
    /\ lastResp.appt \in DOMAIN appts
    /\ appts[lastResp.appt].discountAmount > 0
    /\ appts[lastResp.appt].originalPrice # 8000
    /\ appts[lastResp.appt].originalPrice = ClaimedOriginalPrice(appts[lastResp.appt])

\* ------------------------------------------------------------ usage rows and clients
\* C27. Every DiscountCodeUsage row that references an appointment on file
\* carries that appointment's clientId.
C27_UsageClientMatchesAppointment ==
    \A u \in usages :
        u.appointmentId \in DOMAIN appts =>
            u.clientId = appts[u.appointmentId].clientId

\* The same after the requests that leave the appointment's client alone.
C27_WithoutClientChange ==
    [][(\A id \in DOMAIN appts : id \in DOMAIN appts' /\ appts'[id].clientId = appts[id].clientId)
        => (C27_UsageClientMatchesAppointment => C27_UsageClientMatchesAppointment')]_vars

\* ---------------------------------------------------------------------------
\* Product stock under concurrent sales (productController.ts)
\* ---------------------------------------------------------------------------

\* sellProduct as the server runs it: the handler awaits between its reads and
\* its writes, so another request can be served in between. SellBegin is the
\* part up to the reads (the user, the product, the client) and the
\* validation; a refused request is answered at once, an accepted one keeps
\* the product row it read.
SellBegin(s, actor, inp) ==
    /\ ops < MaxOps
    /\ selling[s].pc = "idle"
    /\ Len(productSales) + Cardinality({t \in Slots : selling[t].pc = "write"}) < MaxSales
    /\ ops' = ops + 1
    /\ LET result == SellResult(actor, inp)
       IN  IF result.resp.status # 201
           THEN /\ lastResp' = result.resp
                /\ UNCHANGED selling
           ELSE /\ selling' = [selling EXCEPT ![s] =
                        [pc |-> "write", actor |-> actor, inp |-> inp,
                         product |-> products[inp.productId]]]
                /\ UNCHANGED lastResp
    /\ UNCHANGED <<packages, users, products, productSales, clients, nextSaleId,
                   editing, nextUserId, tokens, discountCodes, appts, nextApptId,
                   apptDiscounts, usages, creating, now>>

\* The rest of sellProduct: productSale.create with the price of the product
\* row read earlier, then, for a stock-tracked product, product.update with
\* stock: product.stock - qty, computed from that same earlier read.
SellCommit(s) ==
    /\ selling[s].pc = "write"
    /\ LET req == selling[s]
           qty == req.inp.quantity
           total == qty * req.product.price
           base == SaleRow(TargetStaff(req.actor, req.inp), req.inp)
           row == [base EXCEPT !.unitPrice = req.product.price,
                               !.totalPrice = total,
                               !.commissionAmount = total * base.commissionRate]
       IN  /\ productSales' = Append(productSales, row)
           /\ products' =
                IF req.product.stock = NULL THEN products
                ELSE [products EXCEPT ![req.inp.productId].stock =
                                            req.product.stock - qty]
    /\ nextSaleId' = nextSaleId + 1
    /\ selling' = [selling EXCEPT ![s] = Idle]
    /\ lastResp' = Resp("sell", 201, "", 0)
    /\ UNCHANGED <<packages, users, clients, editing, nextUserId, tokens,
                   discountCodes, appts, nextApptId, apptDiscounts, usages,
                   creating, now, ops>>

SaleIds == {productSales[i].id : i \in DOMAIN productSales}

SaleById(id) == CHOOSE r \in Range(productSales) : r.id = id

\* The appointments deleteProductSale recomputes: those of the sale's client
\* dated on the sale's day, or undated and created on that day.
RelatedAppointments(sale) ==
    {id \in DOMAIN appts :
        /\ appts[id].clientId = sale.clientId
        /\ \/ appts[id].appointmentDate = sale.createdAt
           \/ appts[id].appointmentDate = 0 /\ appts[id].createdAt = sale.createdAt}

\* The client's other product sales of that day, summed.
RECURSIVE OtherSalesTotal(_, _)
OtherSalesTotal(sales, sale) ==
    IF sales = <<>> THEN 0
    ELSE (IF /\ Head(sales).clientId = sale.clientId
             /\ Head(sales).createdAt = sale.createdAt
             /\ Head(sales).id # sale.id
          THEN Head(sales).totalPrice ELSE 0)
         + OtherSalesTotal(Tail(sales), sale)

\* deleteProductSale: Boss or Staff, Staff only their own sales; the stock of a
\* tracked product goes up by the sale's quantity (stock: {increment:
\* quantity}, one UPDATE statement), the finalPrice of the related
\* appointments is recomputed, and the sale row is deleted.
deleteProductSale(actor, saleId) ==
    /\ ops < MaxOps
    /\ ops' = ops + 1
    /\ IF RoleOf(users, actor) \notin StaffRoles
       THEN /\ lastResp' = Resp("deleteSale", 403, "Unauthorized", 0)
            /\ UNCHANGED <<products, productSales, appts>>
       ELSE IF saleId \notin SaleIds
       THEN /\ lastResp' = Resp("deleteSale", 404, "Sale not found", 0)
            /\ UNCHANGED <<products, productSales, appts>>
       ELSE IF RoleOf(users, actor) = "Staff" /\ SaleById(saleId).staffId # actor
       THEN /\ lastResp' = Resp("deleteSale", 403, "Permission denied", 0)
            /\ UNCHANGED <<products, productSales, appts>>
       ELSE LET sale == SaleById(saleId)
                priceOf(apt) ==
                    Max(0, ToNumber(apt.originalPrice)
                            + OtherSalesTotal(productSales, sale)
                            - ToNumber(apt.discountAmount))
            IN  /\ products' =
                     IF products[sale.productId].stock = NULL THEN products
                     ELSE [products EXCEPT ![sale.productId].stock =
                                                @ + sale.quantity]
                /\ appts' =
                     IF sale.clientId = 0 THEN appts
                     ELSE [id \in DOMAIN appts |->
                            IF id \in RelatedAppointments(sale)
                            THEN [appts[id] EXCEPT !.finalPrice = priceOf(appts[id])]
                            ELSE appts[id]]
                /\ productSales' = SelectSeq(productSales, LAMBDA r : r.id # saleId)
                /\ lastResp' = Resp("deleteSale", 200, "", 0)
    /\ UNCHANGED <<packages, users, clients, selling, nextSaleId, editing,
                   nextUserId, tokens, discountCodes, nextApptId, apptDiscounts,
                   usages, creating, now>>

StockSellInputs ==
    {[productId |-> p, quantity |-> q] : p \in {1, 2}, q \in {1, 2}}
    \cup {[productId |-> 1, quantity |-> 1, clientId |-> 1]}

StockCreateInputs ==
    [clientId : {1}, packageId : {1}, barberId : {2},
     additionalPackages : {<<>>}, appointmentDate : {0}, discountCode : {0, 1}]

NextStock ==
    \/ \E s \in Slots, actor \in {1, 2, 3}, inp \in StockSellInputs :
            SellBegin(s, actor, inp)
    \/ \E s \in Slots : SellCommit(s)
    \/ \E actor \in {1, 2, 3}, saleId \in 1..(MaxSales + 1) :
            deleteProductSale(actor, saleId)
    \/ Quiet /\ \E inp \in StockCreateInputs : CreateBegin(inp)
    \/ \E s \in Slots : CreateRow(s)
    \/ \E s \in Slots : CreateUsage(s)

SpecStock == Init /\ [][NextStock]_vars

RECURSIVE SoldQuantity(_, _)
SoldQuantity(sales, productId) ==
    IF sales = <<>> THEN 0
    ELSE (IF Head(sales).productId = productId THEN Head(sales).quantity ELSE 0)
         + SoldQuantity(Tail(sales), productId)

NoSaleInFlight == \A s \in Slots : selling[s].pc = "idle"

\* C28. For the stock-tracked product (product 1, initial stock 1), whenever no
\* sellProduct request is in flight the stock equals the initial stock minus
\* the summed quantities of the sales of that product on record, whatever the
\* interleaving of the sellProduct and deleteProductSale requests was.
C28_StockMatchesSales ==
    NoSaleInFlight => products[1].stock = 1 - SoldQuantity(productSales, 1)

\* Two sales on record and the stock lowered only once.
C28_LostUpdate ==
    /\ NoSaleInFlight
    /\ Len(productSales) = 2
    /\ SoldQuantity(productSales, 1) = 2
    /\ products[1].stock = 0

\* The second half of the claim holds: a deleteProductSale request that
\* removes a sale of a stock-tracked product raises the stock by exactly the
\* quantity of that sale.
C28_DeleteRestores ==
    [][\A actor \in {1, 2, 3}, saleId \in SaleIds :
        (deleteProductSale(actor, saleId) /\ lastResp'.status = 200
            /\ products[SaleById(saleId).productId].stock # NULL)
        => products'[SaleById(saleId).productId].stock
            = products[SaleById(saleId).productId].stock + SaleById(saleId).quantity]_vars

\* ------------------------------------------------- completion and the barber
CompleteInputs ==
    {[status |-> "completed"], [status |-> "completed", finalPrice |-> 1000],
     [status |-> "completed", discountCodeId |-> 1]}

\* C29. For every appointment that has a barber, every acting user (Boss,
\* Staff, Client, or a user id that does not resolve) and every
\* updateAppointmentStatus request that sets status to completed and carries no
\* barberId: the appointment's barberId after the request is the one before it.
C29_CompletionKeepsBarber ==
    \A id \in DOMAIN appts, actor \in Actors, inp \in CompleteInputs :
        appts[id].barberId # 0 =>
            UpdateResult(appts, apptDiscounts, usages, actor, id, inp).appts[id].barberId
                = appts[id].barberId

\* An appointment whose barber is user 2 was completed by a request without
\* barberId, and another acting Boss or Staff user would have been assigned had
\* the appointment had no barber.
C29_Witness ==
    /\ lastResp.op = "update"
    /\ lastResp.status = 200
    /\ lastResp.appt \in DOMAIN appts
    /\ appts[lastResp.appt].status = "completed"
    /\ appts[lastResp.appt].barberId = 2
    /\ UpdateResult([appts EXCEPT ![lastResp.appt].barberId = 0], apptDiscounts,
                    usages, 1, lastResp.appt, [status |-> "completed"]).appts[lastResp.appt].barberId = 1

\* ------------------------------------------------- roles and account removal
BossCount(us) == Cardinality({u \in DOMAIN us : us[u].role = "Boss"})

\* updateUserRole, for the bearer of token `tok`.  The last-Boss guard compares
\* currentUser.id with the target; the token's payload carries userId and no
\* id, so Claim(tok, "id") is undefined.
updateUserRole(tok, userId, inp) ==
    /\ ops < MaxOps
    /\ ops' = ops + 1
    /\ LET refuse(status, error) ==
                /\ lastResp' = Resp("updateUserRole", status, error, userId)
                /\ UNCHANGED users
       IN  IF Claim(tok, "role") \notin {"Boss", "Staff"}
           THEN refuse(403, "Access denied")
           ELSE IF ~Has(inp, "role") \/ inp.role \notin {"Boss", "Staff"}
           THEN refuse(400, "Invalid role")
           ELSE IF userId \notin DOMAIN users
           THEN refuse(404, "User not found")
           ELSE IF /\ Claim(tok, "id") = userId
                   /\ inp.role # "Boss"
                   /\ BossCount(users) <= 1
           THEN refuse(400, "Cannot demote last Boss")
           ELSE /\ users' = [users EXCEPT ![userId].role = inp.role]
                /\ lastResp' = Resp("updateUserRole", 200, "", userId)
    /\ UNCHANGED <<packages, products, productSales, clients, selling, nextSaleId,
                   editing, discountCodes, appts, nextApptId, apptDiscounts,
                   usages, creating, now, tokens, nextUserId>>

\* deleteUser, for the bearer of token `tok`.  Appointment.barberId is ON DELETE
\* SET NULL; Package.createdBy and Expense.createdBy are ON DELETE RESTRICT, and
\* the model does not record who created a package or an expense, so the DELETE
\* either goes through or is refused by the database (500, nothing written).
deleteUser(tok, userId) ==
    /\ ops < MaxOps
    /\ ops' = ops + 1
    /\ LET refuse(status, error) ==
                /\ lastResp' = Resp("deleteUser", status, error, userId)
                /\ UNCHANGED <<users, appts>>
       IN  IF Claim(tok, "role") # "Boss"
           THEN refuse(403, "Access denied")
           ELSE IF userId \notin DOMAIN users
           THEN refuse(404, "User not found")
           ELSE IF userId = Claim(tok, "userId")
           THEN refuse(400, "Invalid operation")
           ELSE IF users[userId].role = "Boss" /\ BossCount(users) <= 1
           THEN refuse(400, "Cannot delete last Boss")
           ELSE \/ /\ users' = Without(users, userId)
                   /\ appts' = [id \in DOMAIN appts |->
                                    IF appts[id].barberId = userId
                                    THEN [appts[id] EXCEPT !.barberId = 0]
                                    ELSE appts[id]]
                   /\ lastResp' = Resp("deleteUser", 200, "", userId)
                \/ refuse(500, "Failed to delete user")
    /\ UNCHANGED <<packages, products, productSales, clients, selling, nextSaleId,
                   editing, discountCodes, nextApptId, apptDiscounts, usages,
                   creating, now, tokens, nextUserId>>

RoleInputs == {[role |-> r] : r \in {"Boss", "Staff", "Client"}} \cup {<<>>}

RoleLoginInputs == {[email |-> e, password |-> GoodPassword] : e \in {1, 2, 3}}

RoleCreateInputs ==
    [clientId : {1}, packageId : {1}, barberId : {2},
     additionalPackages : {<<>>}, appointmentDate : {0}, discountCode : {0, 1}]

NextRoles ==
    \/ \E inp \in RoleLoginInputs : login(inp)
    \/ \E tok \in tokens, u \in 1..4, inp \in RoleInputs : updateUserRole(tok, u, inp)
    \/ \E tok \in tokens, u \in 1..4 : deleteUser(tok, u)
    \/ Quiet /\ \E inp \in RoleCreateInputs : CreateBegin(inp)
    \/ \E s \in Slots : CreateRow(s)
    \/ \E s \in Slots : CreateUsage(s)

SpecRoles == Init /\ [][NextRoles]_vars

\* C30. A Boss account exists at the start; after any sequence of
\* updateUserRole and deleteUser requests by bearers of Boss or Staff tokens
\* at least one user has the role Boss.
C30_BossRemains == BossCount(users) >= 1

\* The sole Boss was demoted by an updateUserRole request that was answered 200.
C30_NoBossLeft ==
    /\ lastResp.op = "updateUserRole"
    /\ lastResp.status = 200
    /\ BossCount(users) = 0

\* deleteUser on its own keeps a Boss: a deleteUser request served while a Boss
\* exists leaves one.
C30_DeleteKeepsBoss ==
    [][\A tok \in tokens, u \in 1..4 :
        (deleteUser(tok, u) /\ BossCount(users) >= 1) => BossCount(users') >= 1]_vars

\* A Boss deleted another Boss.
C30_BossDeleted ==
    /\ lastResp.op = "deleteUser"
    /\ lastResp.status = 200
    /\ lastResp.appt \notin DOMAIN users
    /\ BossCount(users) = 1
    /\ \E id \in DOMAIN appts : appts[id].barberId = 0

====
